---------------------------- MODULE Spec2Model ----------------------------
(***************************************************************************)
(* rDTMF: the real-time audio pipeline of src/src/rDTMF.py.                *)
(*                                                                         *)
(*   DTMFDetector     detection queue, rate-limited tick, spectral detect  *)
(*   AudioVisualizer  the level meter (exponential moving average)         *)
(*   AudioThread      worker loop, audio callback, signal relay            *)
(*   SettingsDialog   the three settings dialogs and their setters         *)
(*   MainWindow       start / stop, stop-transition flag, fade timer       *)
(*                                                                         *)
(* Specifications.                                                         *)
(*   Spec          the pipeline: start and stop buttons, worker, stream    *)
(*                 of three kinds of block, level meter, fade timer        *)
(*   SpecDetect    detect_from_data on one frame, and the relay            *)
(*   SpecSettings  the stream of one kind of block, with the dialogs       *)
(*   SpecWindow    the same stream with the level meter, its repaint, and  *)
(*                 stop_detection called with no thread                    *)
(*                                                                         *)
(* Conventions.                                                            *)
(*  - Time is counted in units of 100 ms (the worker's sd.sleep(100)).     *)
(*  - An audio frame is given by its length and by the magnitude spectrum  *)
(*    np.abs(np.fft.rfft(frame)) that numpy computes for it (numpy is a    *)
(*    library, not code of the repository); magnitudes are integers.       *)
(*    Position p of a spectrum is bin p-1, of frequency (p-1)*44100/len.   *)
(*  - Frequencies and distances are kept exact by scaling them with the    *)
(*    frame length: FreqN = frequency * len.                               *)
(*  - The smoothed level is kept exact in units of 1/LevelScale.           *)
(***************************************************************************)
EXTENDS Integers, Sequences, FiniteSets, TLC

None == "None"

(***************************************************************************)
(* Bounds of the model.                                                    *)
(***************************************************************************)
\* update_bars calls (and so audio callbacks) in one behaviour
MaxUpdates == 3
\* the clock stops here
MaxTime == 4
\* calls of stop_detection with no thread in one behaviour
MaxIdleStops == 2

(***************************************************************************)
(* Program constants.                                                      *)
(***************************************************************************)
\* np.fft.rfftfreq(len(audio_data), d=1/44100)
SampleRateHz == 44100
\* AudioThread.buffer_size
buffer_size == 2048
\* AudioThread.sample_rate
DefaultSampleRate == 44100
\* units of time in a second: delay = 0.2 is DefaultDelay units
UnitsPerSecond == 10
\* peak_height = np.max(magnitudes) * 0.68, in percent
PeakHeightPct == 68
\* find_peaks(..., distance=2)
PeakDistance == 2
\* magnitudes[peaks] > 13
MagnitudeThreshold == 13
\* valid_range = (600, 1700)
ValidRangeLow == 600
ValidRangeHigh == 1700
\* self.delay = 0.2 seconds, in units of 100 ms
DefaultDelay == 2
\* sd.sleep(100), in units of 100 ms
SleepTime == 1
\* np.interp(max_magnitude, (0, 100), (0, self.height()))
InterpMax == 100
\* self.smoothing_factor = 0.25 = 1 / 4
SmoothingDen == 4

\* self.dtmf_freqs, in the iteration order of the dict (insertion order)
dtmf_freqs ==
  << [key |-> "1", low |-> 697, high |-> 1209],
     [key |-> "2", low |-> 697, high |-> 1336],
     [key |-> "3", low |-> 697, high |-> 1477],
     [key |-> "A", low |-> 697, high |-> 1633],
     [key |-> "4", low |-> 770, high |-> 1209],
     [key |-> "5", low |-> 770, high |-> 1336],
     [key |-> "6", low |-> 770, high |-> 1477],
     [key |-> "B", low |-> 770, high |-> 1633],
     [key |-> "7", low |-> 852, high |-> 1209],
     [key |-> "8", low |-> 852, high |-> 1336],
     [key |-> "9", low |-> 852, high |-> 1477],
     [key |-> "C", low |-> 852, high |-> 1633],
     [key |-> "*", low |-> 941, high |-> 1209],
     [key |-> "0", low |-> 941, high |-> 1336],
     [key |-> "#", low |-> 941, high |-> 1477],
     [key |-> "D", low |-> 941, high |-> 1633] >>

Symbols == { dtmf_freqs[i].key : i \in 1..Len(dtmf_freqs) }

Abs(x) == IF x < 0 THEN -x ELSE x

(***************************************************************************)
(* DTMFDetector.detect_from_data                                           *)
(***************************************************************************)
\* magnitudes = np.abs(np.fft.rfft(audio_data[:, 0])): len // 2 + 1 bins
magnitudes(audio_data) == audio_data.mag

\* the largest of x[lo..hi], by halves
RECURSIVE MaxRange(_, _, _)
MaxRange(x, lo, hi) ==
  IF lo = hi THEN x[lo]
  ELSE LET mid   == (lo + hi) \div 2
           left  == MaxRange(x, lo, mid)
           right == MaxRange(x, mid + 1, hi)
       IN  IF left >= right THEN left ELSE right

\* np.max(magnitudes), of a frame that is not empty
MaxMagnitude(x) == MaxRange(x, 1, Len(x))

\* the last position of the run of equal samples that starts at position i
\* (scipy _local_maxima_1d: while i_ahead < i_max and x[i_ahead] == x[i])
RECURSIVE PlateauEnd(_, _)
PlateauEnd(x, i) ==
  IF i + 1 < Len(x) /\ x[i + 1] = x[i] THEN PlateauEnd(x, i + 1) ELSE i

\* scipy _local_maxima_1d: a run of equal samples with a strictly lower
\* sample on both sides is a peak at its midpoint; the first and the last
\* sample are never peaks
LocalMaxima(x) ==
  { (l + PlateauEnd(x, l)) \div 2 :
      l \in { i \in 2..(Len(x) - 1) :
                /\ x[i - 1] < x[i]
                /\ x[PlateauEnd(x, i) + 1] < x[i] } }

\* scipy _select_by_peak_distance: a peak closer than distance to a peak of
\* higher priority (its magnitude) is dropped
SelectByPeakDistance(peaks, x, distance) ==
  { p \in peaks :
      ~ \E q \in peaks :
          /\ q # p
          /\ Abs(p - q) < distance
          /\ \/ x[q] > x[p]
             \/ x[q] = x[p] /\ q > p }

\* signal.find_peaks(magnitudes, height=peak_height, distance=2) with
\* peak_height = np.max(magnitudes) * 0.68: the positions of the peaks
FindPeaks(x) ==
  LET maxmag  == MaxMagnitude(x)
      highest == { p \in LocalMaxima(x) : 100 * x[p] >= PeakHeightPct * maxmag }
  IN  SelectByPeakDistance(highest, x, PeakDistance)

\* freq[p] * len(audio_data), freq = np.fft.rfftfreq(len(audio_data), d=1/44100)
FreqN(p) == (p - 1) * SampleRateHz

\* faulty variant: magnitudes[peaks] >= 13
AboveThreshold_AtLeast(peaks, x) == { p \in peaks : x[p] >= MagnitudeThreshold }

\* freq[peaks][magnitudes[peaks] > 13]
AboveThreshold(peaks, x) == { p \in peaks : x[p] > MagnitudeThreshold }

\* faulty variant: the valid range is that of the nominal table frequencies
InValidRange_Nominal(p, n) ==
  /\ FreqN(p) >= dtmf_freqs[1].low * n
  /\ FreqN(p) <= dtmf_freqs[Len(dtmf_freqs)].high * n

\* (detected_freqs >= valid_range[0]) & (detected_freqs <= valid_range[1])
InValidRange(p, n) ==
  /\ FreqN(p) >= ValidRangeLow * n
  /\ FreqN(p) <= ValidRangeHigh * n

\* faulty variant: every bin at or above peak_height is taken, with no search for
\* peaks and no magnitude threshold
DetectedFreqs_NoPeaks(audio_data) ==
  LET x      == magnitudes(audio_data)
      maxmag == MaxMagnitude(x)
  IN  { p \in DOMAIN x :
          100 * x[p] >= PeakHeightPct * maxmag /\ InValidRange(p, audio_data.len) }

\* lines 56-61: the positions of the detected frequencies
DetectedFreqs(audio_data) ==
  LET x == magnitudes(audio_data)
  IN  { p \in AboveThreshold(FindPeaks(x), x) : InValidRange(p, audio_data.len) }

\* sorted(detected_freqs): ascending
RECURSIVE SortedSeq(_)
SortedSeq(S) ==
  IF S = {} THEN << >>
  ELSE LET m == CHOOSE a \in S : \A b \in S : a <= b
       IN  << m >> \o SortedSeq(S \ {m})

\* faulty variant: every combination of two frequencies is paired
PossiblePairs_Combinations(sorted) ==
  LET idx     == { e \in (1..Len(sorted)) \X (1..Len(sorted)) : e[1] < e[2] }
      rank(e) == Cardinality({ f \in idx : f[1] < e[1] \/ (f[1] = e[1] /\ f[2] <= e[2]) })
  IN  [ m \in 1..Cardinality(idx) |->
          LET e == CHOOSE e \in idx : rank(e) = m
          IN  << sorted[e[1]], sorted[e[2]] >> ]

\* for i in range(len(detected_freqs) - 1): (detected_freqs[i], detected_freqs[i + 1])
PossiblePairs(sorted) ==
  [ i \in 1..(Len(sorted) - 1) |-> << sorted[i], sorted[i + 1] >> ]

\* distance = abs(pair[0] - low_freq) + abs(pair[1] - high_freq), times len
Distance(pair, entry, n) ==
  Abs(FreqN(pair[1]) - entry.low * n) + Abs(FreqN(pair[2]) - entry.high * n)

\* faulty variant: distance <= min_distance
IsCloser_LessOrEqual(acc, distance) ==
  acc.inf \/ distance <= acc.min_distance

\* if distance < min_distance: (inf: min_distance is still float('inf'))
IsCloser(acc, distance) ==
  acc.inf \/ distance < acc.min_distance

\* for pair in possible_pairs: ... (the inner loop, for one table entry)
\*     min_distance = distance; best_match = key
RECURSIVE PairLoop(_, _, _, _, _)
PairLoop(acc, entry, pi, pairs, n) ==
  IF pi > Len(pairs) THEN acc
  ELSE LET distance == Distance(pairs[pi], entry, n)
       IN  IF IsCloser(acc, distance)
           THEN PairLoop([inf |-> FALSE, min_distance |-> distance, best_match |-> entry.key],
                         entry, pi + 1, pairs, n)
           ELSE PairLoop(acc, entry, pi + 1, pairs, n)

\* for key, (low_freq, high_freq) in self.dtmf_freqs.items(): (the outer loop)
RECURSIVE MatchLoop(_, _, _, _)
MatchLoop(acc, ki, pairs, n) ==
  IF ki > Len(dtmf_freqs) THEN acc
  ELSE MatchLoop(PairLoop(acc, dtmf_freqs[ki], 1, pairs, n), ki + 1, pairs, n)

BestMatch(pairs, n) ==
  MatchLoop([inf |-> TRUE, min_distance |-> 0, best_match |-> None], 1, pairs, n).best_match

\* faulty variant: if len(detected_freqs) <= 2: return
DetectFromData_MoreThanTwo(audio_data) ==
  IF audio_data.len = 0 THEN << >>
  ELSE LET detected_freqs == DetectedFreqs(audio_data)
       IN  IF Cardinality(detected_freqs) <= 2 THEN << >>
           ELSE LET best_match ==
                      BestMatch(PossiblePairs(SortedSeq(detected_freqs)), audio_data.len)
                IN  IF best_match # None THEN << best_match >> ELSE << >>

\* the signals detect_from_data emits: << >> or << key >>
DetectFromData(audio_data) ==
  IF audio_data.len = 0 THEN << >>
  ELSE LET detected_freqs == DetectedFreqs(audio_data)
       IN  IF Cardinality(detected_freqs) < 2 THEN << >>
           ELSE LET best_match ==
                      BestMatch(PossiblePairs(SortedSeq(detected_freqs)), audio_data.len)
                IN  IF best_match # None THEN << best_match >> ELSE << >>

(***************************************************************************)
(* Test frames: SineSpectra[i] is np.abs(np.fft.rfft(x)) rounded to the     *)
(* nearest integer, for x[t] = sin(2 pi low t / 44100) + sin(2 pi high t /  *)
(* 44100), t = 0..2047, (low, high) the pair of dtmf_freqs[i]: 1025 bins.   *)
(***************************************************************************)
SineSpectra ==
  <<
  \* 1
  <<
     18, 18, 18, 19, 19, 19, 19, 19, 20, 20, 21, 21, 22, 22, 23, 24, 25, 26, 27, 29,
     31, 33, 35, 38, 42, 47, 53, 62, 75, 95, 133, 225, 817, 466, 176, 106, 74, 56, 45, 36,
     30, 25, 21, 18, 15, 13, 11, 9, 8, 9, 12, 16, 23, 34, 56, 115, 978, 179, 88, 60,
     47, 39, 33, 30, 27, 24, 22, 21, 20, 18, 17, 17, 16, 15, 15, 14, 13, 13, 13, 12,
     12, 11, 11, 11, 10, 10, 10, 10, 9, 9, 9, 9, 9, 9, 8, 8, 8, 8, 8, 8,
     7, 7, 7, 7, 7, 7, 7, 7, 7, 6, 6, 6, 6, 6, 6, 6, 6, 6, 6, 6,
     6, 6, 5, 5, 5, 5, 5, 5, 5, 5, 5, 5, 5, 5, 5, 5, 5, 5, 5, 5,
     5, 4, 4, 4, 4, 4, 4, 4, 4, 4, 4, 4, 4, 4, 4, 4, 4, 4, 4, 4,
     4, 4, 4, 4, 4, 4, 4, 4, 4, 4, 4, 4, 3, 3, 3, 3, 3, 3, 3, 3,
     3, 3, 3, 3, 3, 3, 3, 3, 3, 3, 3, 3, 3, 3, 3, 3, 3, 3, 3, 3,
     3, 3, 3, 3, 3, 3, 3, 3, 3, 3, 3, 3, 3, 3, 3, 3, 3, 3, 3, 3,
     3, 3, 3, 3, 3, 3, 3, 3, 3, 3, 3, 3, 2, 2, 2, 2, 2, 2, 2, 2,
     2, 2, 2, 2, 2, 2, 2, 2, 2, 2, 2, 2, 2, 2, 2, 2, 2, 2, 2, 2,
     2, 2, 2, 2, 2, 2, 2, 2, 2, 2, 2, 2, 2, 2, 2, 2, 2, 2, 2, 2,
     2, 2, 2, 2, 2, 2, 2, 2, 2, 2, 2, 2, 2, 2, 2, 2, 2, 2, 2, 2,
     2, 2, 2, 2, 2, 2, 2, 2, 2, 2, 2, 2, 2, 2, 2, 2, 2, 2, 2, 2,
     2, 2, 2, 2, 2, 2, 2, 2, 2, 2, 2, 2, 2, 2, 2, 2, 2, 2, 2, 2,
     2, 2, 2, 2, 2, 2, 2, 2, 2, 2, 2, 2, 2, 2, 2, 2, 2, 2, 2, 2,
     2, 2, 2, 2, 2, 2, 2, 2, 2, 2, 2, 2, 2, 2, 2, 2, 2, 2, 2, 2,
     2, 2, 2, 2, 2, 2, 1, 1, 1, 1, 1, 1, 1, 1, 1, 1, 1, 1, 1, 1,
     1, 1, 1, 1, 1, 1, 1, 1, 1, 1, 1, 1, 1, 1, 1, 1, 1, 1, 1, 1,
     1, 1, 1, 1, 1, 1, 1, 1, 1, 1, 1, 1, 1, 1, 1, 1, 1, 1, 1, 1,
     1, 1, 1, 1, 1, 1, 1, 1, 1, 1, 1, 1, 1, 1, 1, 1, 1, 1, 1, 1,
     1, 1, 1, 1, 1, 1, 1, 1, 1, 1, 1, 1, 1, 1, 1, 1, 1, 1, 1, 1,
     1, 1, 1, 1, 1, 1, 1, 1, 1, 1, 1, 1, 1, 1, 1, 1, 1, 1, 1, 1,
     1, 1, 1, 1, 1, 1, 1, 1, 1, 1, 1, 1, 1, 1, 1, 1, 1, 1, 1, 1,
     1, 1, 1, 1, 1, 1, 1, 1, 1, 1, 1, 1, 1, 1, 1, 1, 1, 1, 1, 1,
     1, 1, 1, 1, 1, 1, 1, 1, 1, 1, 1, 1, 1, 1, 1, 1, 1, 1, 1, 1,
     1, 1, 1, 1, 1, 1, 1, 1, 1, 1, 1, 1, 1, 1, 1, 1, 1, 1, 1, 1,
     1, 1, 1, 1, 1, 1, 1, 1, 1, 1, 1, 1, 1, 1, 1, 1, 1, 1, 1, 1,
     1, 1, 1, 1, 1, 1, 1, 1, 1, 1, 1, 1, 1, 1, 1, 1, 1, 1, 1, 1,
     1, 1, 1, 1, 1, 1, 1, 1, 1, 1, 1, 1, 1, 1, 1, 1, 1, 1, 1, 1,
     1, 1, 1, 1, 1, 1, 1, 1, 1, 1, 1, 1, 1, 1, 1, 1, 1, 1, 1, 1,
     1, 1, 1, 1, 1, 1, 1, 1, 1, 1, 1, 1, 1, 1, 1, 1, 1, 1, 1, 1,
     1, 1, 1, 1, 1, 1, 1, 1, 1, 1, 1, 1, 1, 1, 1, 1, 1, 1, 1, 1,
     1, 1, 1, 1, 1, 1, 1, 1, 1, 1, 1, 1, 1, 1, 1, 1, 1, 1, 1, 1,
     1, 1, 1, 1, 1, 1, 1, 1, 1, 1, 1, 1, 1, 1, 1, 1, 1, 1, 1, 1,
     1, 1, 1, 1, 1, 1, 1, 1, 1, 1, 1, 1, 1, 1, 1, 1, 1, 1, 1, 1,
     1, 1, 1, 1, 1, 1, 1, 1, 1, 1, 1, 1, 1, 1, 1, 1, 1, 1, 1, 1,
     1, 1, 1, 1, 1, 1, 1, 1, 1, 1, 1, 1, 1, 1, 1, 1, 1, 1, 1, 1,
     1, 1, 1, 1, 1, 1, 1, 1, 1, 1, 1, 1, 1, 1, 1, 1, 1, 1, 1, 1,
     1, 1, 1, 1, 1, 1, 1, 1, 1, 1, 1, 1, 1, 1, 1, 1, 1, 1, 1, 1,
     1, 1, 1, 1, 1, 1, 1, 1, 1, 1, 1, 1, 1, 1, 1, 1, 1, 1, 1, 1,
     1, 1, 1, 1, 1, 1, 1, 1, 1, 1, 1, 1, 1, 1, 1, 1, 1, 1, 1, 1,
     1, 1, 1, 1, 1, 1, 1, 1, 1, 1, 1, 1, 1, 1, 1, 1, 1, 1, 1, 1,
     1, 1, 1, 1, 1, 1, 1, 1, 1, 1, 1, 1, 1, 1, 1, 1, 1, 1, 1, 1,
     1, 1, 1, 1, 1, 1, 1, 1, 1, 1, 1, 1, 1, 1, 1, 1, 1, 1, 1, 1,
     1, 1, 1, 1, 1, 1, 1, 1, 1, 1, 1, 1, 1, 1, 1, 1, 1, 1, 1, 1,
     1, 1, 1, 1, 1, 1, 1, 1, 1, 1, 1, 1, 1, 1, 1, 1, 1, 1, 1, 1,
     1, 1, 1, 1, 1, 1, 1, 1, 1, 1, 1, 1, 1, 1, 1, 1, 1, 1, 1, 1,
     1, 1, 1, 1, 1, 1, 1, 1, 1, 1, 1, 1, 1, 1, 1, 1, 1, 1, 1, 1,
     1, 1, 1, 1, 1
  >>,
  \* 2
  <<
     17, 17, 17, 17, 17, 17, 17, 18, 18, 18, 19, 19, 20, 20, 21, 22, 23, 24, 25, 26,
     28, 30, 33, 36, 39, 44, 50, 59, 72, 92, 129, 222, 813, 470, 180, 110, 79, 61, 50, 42,
     36, 31, 28, 25, 22, 20, 18, 17, 16, 14, 13, 12, 11, 10, 9, 9, 8, 8, 8, 10,
     16, 37, 1014, 53, 29, 22, 18, 16, 14, 13, 12, 11, 10, 10, 9, 9, 9, 8, 8, 8,
     8, 7, 7, 7, 7, 7, 6, 6, 6, 6, 6, 6, 6, 6, 5, 5, 5, 5, 5, 5,
     5, 5, 5, 5, 5, 4, 4, 4, 4, 4, 4, 4, 4, 4, 4, 4, 4, 4, 4, 4,
     4, 4, 4, 4, 4, 3, 3, 3, 3, 3, 3, 3, 3, 3, 3, 3, 3, 3, 3, 3,
     3, 3, 3, 3, 3, 3, 3, 3, 3, 3, 3, 3, 3, 3, 3, 3, 3, 3, 3, 3,
     3, 2, 2, 2, 2, 2, 2, 2, 2, 2, 2, 2, 2, 2, 2, 2, 2, 2, 2, 2,
     2, 2, 2, 2, 2, 2, 2, 2, 2, 2, 2, 2, 2, 2, 2, 2, 2, 2, 2, 2,
     2, 2, 2, 2, 2, 2, 2, 2, 2, 2, 2, 2, 2, 2, 2, 2, 2, 2, 2, 2,
     2, 2, 2, 2, 2, 2, 2, 2, 2, 2, 2, 2, 2, 2, 2, 2, 2, 2, 2, 2,
     2, 2, 2, 2, 2, 2, 2, 2, 2, 2, 2, 2, 2, 2, 1, 1, 1, 1, 1, 1,
     1, 1, 1, 1, 1, 1, 1, 1, 1, 1, 1, 1, 1, 1, 1, 1, 1, 1, 1, 1,
     1, 1, 1, 1, 1, 1, 1, 1, 1, 1, 1, 1, 1, 1, 1, 1, 1, 1, 1, 1,
     1, 1, 1, 1, 1, 1, 1, 1, 1, 1, 1, 1, 1, 1, 1, 1, 1, 1, 1, 1,
     1, 1, 1, 1, 1, 1, 1, 1, 1, 1, 1, 1, 1, 1, 1, 1, 1, 1, 1, 1,
     1, 1, 1, 1, 1, 1, 1, 1, 1, 1, 1, 1, 1, 1, 1, 1, 1, 1, 1, 1,
     1, 1, 1, 1, 1, 1, 1, 1, 1, 1, 1, 1, 1, 1, 1, 1, 1, 1, 1, 1,
     1, 1, 1, 1, 1, 1, 1, 1, 1, 1, 1, 1, 1, 1, 1, 1, 1, 1, 1, 1,
     1, 1, 1, 1, 1, 1, 1, 1, 1, 1, 1, 1, 1, 1, 1, 1, 1, 1, 1, 1,
     1, 1, 1, 1, 1, 1, 1, 1, 1, 1, 1, 1, 1, 1, 1, 1, 1, 1, 1, 1,
     1, 1, 1, 1, 1, 1, 1, 1, 1, 1, 1, 1, 1, 1, 1, 1, 1, 1, 1, 1,
     1, 1, 1, 1, 1, 1, 1, 1, 1, 1, 1, 1, 1, 1, 1, 1, 1, 1, 1, 1,
     1, 1, 1, 1, 1, 1, 1, 1, 1, 1, 1, 1, 1, 1, 1, 1, 1, 1, 1, 1,
     1, 1, 1, 1, 1, 1, 1, 1, 1, 1, 1, 1, 1, 1, 1, 1, 1, 1, 1, 1,
     1, 1, 1, 1, 1, 1, 1, 1, 1, 1, 1, 1, 1, 1, 1, 1, 1, 1, 1, 1,
     1, 1, 1, 1, 1, 1, 1, 1, 1, 1, 1, 1, 1, 1, 1, 1, 1, 1, 1, 1,
     1, 1, 1, 1, 1, 1, 1, 1, 1, 1, 1, 1, 1, 1, 1, 1, 1, 1, 1, 1,
     1, 1, 1, 1, 1, 1, 1, 1, 1, 1, 1, 1, 1, 1, 1, 1, 1, 1, 1, 1,
     1, 1, 1, 1, 1, 1, 1, 1, 1, 1, 1, 1, 1, 1, 1, 1, 1, 1, 1, 1,
     1, 1, 1, 1, 1, 1, 1, 1, 1, 1, 1, 1, 1, 1, 1, 1, 1, 1, 1, 1,
     1, 1, 1, 1, 1, 1, 1, 1, 1, 1, 1, 1, 1, 1, 1, 1, 1, 1, 1, 1,
     1, 1, 1, 1, 1, 1, 1, 1, 1, 1, 1, 1, 1, 1, 1, 1, 1, 1, 1, 1,
     1, 1, 1, 1, 1, 1, 1, 1, 1, 1, 1, 1, 1, 1, 1, 1, 1, 1, 1, 1,
     1, 1, 1, 1, 1, 1, 1, 1, 1, 1, 1, 1, 1, 1, 1, 1, 1, 1, 1, 1,
     1, 1, 1, 1, 1, 1, 1, 1, 1, 1, 1, 1, 1, 1, 1, 1, 1, 1, 1, 1,
     1, 1, 1, 1, 1, 1, 1, 1, 1, 1, 1, 1, 1, 1, 1, 1, 1, 1, 1, 1,
     1, 1, 1, 1, 1, 1, 1, 1, 1, 1, 1, 1, 1, 1, 1, 1, 1, 1, 1, 1,
     1, 1, 1, 1, 1, 1, 1, 1, 1, 1, 1, 1, 1, 1, 1, 1, 1, 1, 1, 1,
     1, 1, 1, 1, 1, 1, 1, 1, 1, 1, 1, 1, 1, 1, 1, 1, 1, 1, 1, 1,
     1, 1, 1, 1, 1, 1, 1, 1, 1, 1, 1, 1, 1, 1, 1, 1, 1, 1, 1, 1,
     1, 1, 1, 1, 1, 1, 1, 1, 1, 1, 1, 1, 1, 1, 1, 1, 1, 1, 1, 1,
     1, 1, 1, 1, 1, 1, 1, 1, 1, 1, 1, 1, 1, 1, 1, 1, 1, 1, 1, 1,
     1, 1, 1, 1, 1, 1, 1, 1, 1, 1, 1, 1, 1, 1, 1, 1, 1, 1, 1, 1,
     1, 1, 1, 1, 1, 1, 1, 1, 1, 1, 1, 1, 1, 1, 1, 1, 1, 1, 1, 1,
     1, 1, 1, 1, 1, 1, 1, 1, 1, 1, 1, 1, 1, 1, 1, 1, 1, 1, 1, 1,
     1, 1, 1, 1, 1, 1, 1, 1, 1, 1, 1, 1, 1, 1, 1, 1, 1, 1, 1, 1,
     1, 1, 1, 1, 1, 1, 1, 1, 1, 1, 1, 1, 1, 1, 1, 1, 1, 1, 1, 1,
     1, 1, 1, 1, 1, 1, 1, 1, 1, 1, 1, 1, 1, 1, 1, 1, 1, 1, 1, 1,
     1, 1, 1, 1, 1, 1, 1, 1, 1, 1, 1, 1, 1, 1, 1, 1, 1, 1, 1, 1,
     1, 1, 1, 1, 1
  >>,
  \* 3
  <<
     25, 26, 26, 26, 26, 26, 26, 26, 27, 27, 28, 28, 29, 29, 30, 31, 32, 33, 34, 36,
     37, 39, 42, 45, 49, 53, 60, 68, 81, 101, 139, 231, 823, 460, 170, 101, 70, 52, 41, 33,
     27, 23, 20, 17, 16, 14, 13, 13, 13, 13, 14, 15, 16, 17, 18, 20, 22, 24, 27, 30,
     34, 39, 45, 54, 66, 85, 119, 195, 526, 767, 223, 131, 93, 72, 59, 50, 43, 38, 34, 31,
     28, 26, 24, 22, 21, 20, 18, 17, 16, 16, 15, 14, 14, 13, 12, 12, 11, 11, 11, 10,
     10, 10, 9, 9, 9, 8, 8, 8, 8, 8, 7, 7, 7, 7, 7, 6, 6, 6, 6, 6,
     6, 6, 5, 5, 5, 5, 5, 5, 5, 5, 5, 5, 4, 4, 4, 4, 4, 4, 4, 4,
     4, 4, 4, 4, 4, 4, 3, 3, 3, 3, 3, 3, 3, 3, 3, 3, 3, 3, 3, 3,
     3, 3, 3, 3, 3, 3, 3, 3, 3, 3, 2, 2, 2, 2, 2, 2, 2, 2, 2, 2,
     2, 2, 2, 2, 2, 2, 2, 2, 2, 2, 2, 2, 2, 2, 2, 2, 2, 2, 2, 2,
     2, 2, 2, 2, 2, 2, 2, 2, 2, 2, 2, 2, 2, 2, 2, 2, 2, 2, 1, 1,
     1, 1, 1, 1, 1, 1, 1, 1, 1, 1, 1, 1, 1, 1, 1, 1, 1, 1, 1, 1,
     1, 1, 1, 1, 1, 1, 1, 1, 1, 1, 1, 1, 1, 1, 1, 1, 1, 1, 1, 1,
     1, 1, 1, 1, 1, 1, 1, 1, 1, 1, 1, 1, 1, 1, 1, 1, 1, 1, 1, 1,
     1, 1, 1, 1, 1, 1, 1, 1, 1, 1, 1, 1, 1, 1, 1, 1, 1, 1, 1, 1,
     1, 1, 1, 1, 1, 1, 1, 1, 1, 1, 1, 1, 1, 1, 1, 1, 1, 1, 1, 1,
     1, 1, 1, 1, 1, 1, 1, 1, 1, 1, 1, 1, 1, 1, 1, 1, 1, 1, 1, 1,
     1, 1, 1, 1, 1, 1, 1, 1, 1, 1, 1, 1, 1, 1, 1, 1, 1, 1, 1, 1,
     1, 1, 1, 1, 1, 1, 1, 1, 1, 1, 1, 1, 1, 1, 1, 1, 1, 1, 1, 1,
     1, 1, 1, 1, 1, 1, 1, 1, 1, 1, 1, 1, 1, 1, 1, 1, 1, 1, 1, 1,
     1, 1, 1, 1, 1, 1, 1, 1, 1, 1, 1, 1, 1, 1, 1, 1, 1, 1, 1, 1,
     0, 0, 0, 0, 0, 0, 0, 0, 0, 0, 0, 0, 0, 0, 0, 0, 0, 0, 0, 0,
     0, 0, 0, 0, 0, 0, 0, 0, 0, 0, 0, 0, 0, 0, 0, 0, 0, 0, 0, 0,
     0, 0, 0, 0, 0, 0, 0, 0, 0, 0, 0, 0, 0, 0, 0, 0, 0, 0, 0, 0,
     0, 0, 0, 0, 0, 0, 0, 0, 0, 0, 0, 0, 0, 0, 0, 0, 0, 0, 0, 0,
     0, 0, 0, 0, 0, 0, 0, 0, 0, 0, 0, 0, 0, 0, 0, 0, 0, 0, 0, 0,
     0, 0, 0, 0, 0, 0, 0, 0, 0, 0, 0, 0, 0, 0, 0, 0, 0, 0, 0, 0,
     0, 0, 0, 0, 0, 0, 0, 0, 0, 0, 0, 0, 0, 0, 0, 0, 0, 0, 0, 0,
     0, 0, 0, 0, 0, 0, 0, 0, 0, 0, 0, 0, 0, 0, 0, 0, 0, 0, 0, 0,
     0, 0, 0, 0, 0, 0, 0, 0, 0, 0, 0, 0, 0, 0, 0, 0, 0, 0, 0, 0,
     0, 0, 0, 0, 0, 0, 0, 0, 0, 0, 0, 0, 0, 0, 0, 0, 0, 0, 0, 0,
     0, 0, 0, 0, 0, 0, 0, 0, 0, 0, 0, 0, 0, 0, 0, 0, 0, 0, 0, 0,
     0, 0, 0, 0, 0, 0, 0, 0, 0, 0, 0, 0, 0, 0, 0, 0, 0, 0, 0, 0,
     0, 0, 0, 0, 0, 0, 0, 0, 0, 0, 0, 0, 0, 0, 0, 0, 0, 0, 0, 0,
     0, 0, 0, 0, 0, 0, 0, 0, 0, 0, 0, 0, 0, 0, 0, 0, 0, 0, 0, 0,
     0, 0, 0, 0, 0, 0, 0, 0, 0, 0, 0, 0, 0, 0, 0, 0, 0, 0, 0, 0,
     0, 0, 0, 0, 0, 0, 0, 0, 0, 0, 0, 0, 0, 0, 0, 0, 0, 0, 0, 0,
     0, 0, 0, 0, 0, 0, 0, 0, 0, 0, 0, 0, 0, 0, 0, 0, 0, 0, 0, 0,
     0, 0, 0, 0, 0, 0, 0, 0, 0, 0, 0, 0, 0, 0, 0, 0, 0, 0, 0, 0,
     0, 0, 0, 0, 0, 0, 0, 0, 0, 0, 0, 0, 0, 0, 0, 0, 0, 0, 0, 0,
     0, 0, 0, 0, 0, 0, 0, 0, 0, 0, 0, 0, 0, 0, 0, 0, 0, 0, 0, 0,
     0, 0, 0, 0, 0, 0, 0, 0, 0, 0, 0, 0, 0, 0, 0, 0, 0, 0, 0, 0,
     0, 0, 0, 0, 0, 0, 0, 0, 0, 0, 0, 0, 0, 0, 0, 0, 0, 0, 0, 0,
     0, 0, 0, 0, 0, 0, 0, 0, 0, 0, 0, 0, 0, 0, 0, 0, 0, 0, 0, 0,
     0, 0, 0, 0, 0, 0, 0, 0, 0, 0, 0, 0, 0, 0, 0, 0, 0, 0, 0, 0,
     0, 0, 0, 0, 0, 0, 0, 0, 0, 0, 0, 0, 0, 0, 0, 0, 0, 0, 0, 0,
     0, 0, 0, 0, 0, 0, 0, 0, 0, 0, 0, 0, 0, 0, 0, 0, 0, 0, 0, 0,
     0, 0, 0, 0, 0, 0, 0, 0, 0, 0, 0, 0, 0, 0, 0, 0, 0, 0, 0, 0,
     0, 0, 0, 0, 0, 0, 0, 0, 0, 0, 0, 0, 0, 0, 0, 0, 0, 0, 0, 0,
     0, 0, 0, 0, 0, 0, 0, 0, 0, 0, 0, 0, 0, 0, 0, 0, 0, 0, 0, 0,
     0, 0, 0, 0, 0, 0, 0, 0, 0, 0, 0, 0, 0, 0, 0, 0, 0, 0, 0, 0,
     0, 0, 0, 0, 0
  >>,
  \* A
  <<
     19, 19, 19, 19, 19, 19, 20, 20, 20, 21, 21, 21, 22, 23, 23, 24, 25, 26, 27, 29,
     30, 32, 35, 38, 41, 46, 52, 61, 74, 94, 131, 223, 815, 468, 178, 109, 78, 60, 49, 41,
     35, 31, 28, 25, 23, 21, 19, 18, 17, 16, 15, 15, 14, 14, 13, 13, 13, 13, 13, 13,
     13, 14, 14, 15, 16, 17, 18, 20, 22, 25, 29, 34, 43, 58, 88, 193, 979, 137, 73, 50,
     38, 30, 25, 22, 19, 17, 15, 14, 13, 12, 11, 10, 9, 9, 8, 8, 7, 7, 7, 6,
     6, 6, 6, 5, 5, 5, 5, 5, 5, 4, 4, 4, 4, 4, 4, 4, 4, 3, 3, 3,
     3, 3, 3, 3, 3, 3, 3, 3, 3, 3, 3, 2, 2, 2, 2, 2, 2, 2, 2, 2,
     2, 2, 2, 2, 2, 2, 2, 2, 2, 2, 2, 2, 2, 2, 2, 2, 2, 2, 2, 1,
     1, 1, 1, 1, 1, 1, 1, 1, 1, 1, 1, 1, 1, 1, 1, 1, 1, 1, 1, 1,
     1, 1, 1, 1, 1, 1, 1, 1, 1, 1, 1, 1, 1, 1, 1, 1, 1, 1, 1, 1,
     1, 1, 1, 1, 1, 1, 1, 1, 1, 1, 1, 1, 1, 1, 1, 1, 1, 1, 1, 1,
     1, 1, 1, 1, 1, 1, 1, 1, 1, 1, 1, 1, 1, 1, 1, 1, 1, 1, 1, 1,
     1, 1, 1, 1, 1, 1, 1, 1, 1, 1, 1, 1, 1, 1, 1, 1, 0, 0, 0, 0,
     0, 0, 0, 0, 0, 0, 0, 0, 0, 0, 0, 0, 0, 0, 0, 0, 0, 0, 0, 0,
     0, 0, 0, 0, 0, 0, 0, 0, 0, 0, 0, 0, 0, 0, 0, 0, 0, 0, 0, 0,
     0, 0, 0, 0, 0, 0, 0, 0, 0, 0, 0, 0, 0, 0, 0, 0, 0, 0, 0, 0,
     0, 0, 0, 0, 0, 0, 0, 0, 0, 0, 0, 0, 0, 0, 0, 0, 0, 0, 0, 0,
     0, 0, 0, 0, 0, 0, 0, 0, 0, 0, 0, 0, 0, 0, 0, 0, 0, 0, 0, 0,
     0, 0, 0, 0, 0, 0, 0, 0, 0, 0, 0, 0, 0, 0, 0, 0, 0, 0, 0, 0,
     0, 0, 0, 0, 0, 0, 0, 0, 0, 0, 0, 0, 0, 0, 0, 0, 0, 0, 0, 0,
     0, 0, 0, 0, 0, 0, 0, 0, 0, 0, 0, 0, 0, 0, 0, 0, 0, 0, 0, 0,
     0, 0, 0, 0, 0, 0, 0, 0, 0, 0, 0, 0, 0, 0, 0, 0, 0, 0, 0, 0,
     0, 0, 0, 0, 0, 0, 0, 0, 0, 0, 0, 0, 0, 0, 0, 0, 0, 0, 0, 0,
     0, 0, 0, 0, 0, 0, 0, 0, 0, 0, 0, 0, 0, 0, 0, 0, 0, 0, 0, 0,
     0, 0, 0, 0, 0, 0, 0, 0, 0, 0, 0, 0, 0, 0, 0, 0, 0, 0, 0, 0,
     0, 0, 0, 0, 0, 0, 0, 0, 0, 0, 0, 0, 0, 0, 0, 0, 0, 0, 0, 0,
     0, 0, 0, 0, 0, 0, 0, 0, 0, 0, 0, 0, 0, 0, 0, 0, 0, 0, 0, 0,
     0, 0, 0, 0, 0, 0, 0, 0, 0, 0, 0, 0, 0, 0, 0, 0, 0, 0, 0, 0,
     0, 0, 0, 0, 0, 0, 0, 0, 0, 0, 0, 0, 0, 0, 0, 0, 0, 0, 0, 0,
     0, 0, 0, 0, 0, 0, 0, 0, 0, 0, 0, 0, 0, 0, 0, 0, 0, 0, 0, 0,
     0, 0, 0, 0, 0, 0, 0, 0, 0, 0, 0, 0, 0, 0, 0, 0, 0, 0, 0, 0,
     0, 0, 0, 0, 0, 0, 0, 0, 0, 0, 0, 0, 0, 0, 0, 0, 0, 0, 0, 0,
     0, 0, 0, 0, 0, 0, 0, 0, 0, 0, 0, 0, 0, 0, 0, 0, 0, 0, 0, 0,
     0, 0, 0, 0, 0, 0, 0, 0, 0, 0, 0, 0, 0, 0, 0, 0, 0, 0, 0, 0,
     0, 0, 0, 0, 0, 0, 0, 0, 0, 0, 0, 0, 0, 0, 0, 0, 0, 0, 0, 0,
     0, 0, 0, 0, 0, 0, 0, 0, 0, 0, 0, 0, 0, 0, 0, 0, 0, 0, 0, 0,
     0, 0, 0, 0, 0, 0, 0, 0, 0, 0, 0, 0, 0, 0, 0, 0, 0, 0, 0, 0,
     0, 0, 0, 0, 0, 0, 0, 0, 0, 0, 0, 0, 0, 0, 0, 0, 0, 0, 0, 0,
     0, 0, 0, 0, 0, 0, 0, 0, 0, 0, 0, 0, 0, 0, 0, 0, 0, 0, 0, 0,
     0, 0, 0, 0, 0, 0, 0, 0, 0, 0, 0, 0, 0, 0, 0, 0, 0, 0, 0, 0,
     0, 0, 0, 0, 0, 0, 0, 0, 0, 0, 0, 0, 0, 0, 0, 0, 0, 0, 0, 0,
     0, 0, 0, 0, 0, 0, 0, 0, 0, 0, 0, 0, 0, 0, 0, 0, 0, 0, 0, 0,
     0, 0, 0, 0, 0, 0, 0, 0, 0, 0, 0, 0, 0, 0, 0, 0, 0, 0, 0, 0,
     0, 0, 0, 0, 0, 0, 0, 0, 0, 0, 0, 0, 0, 0, 0, 0, 0, 0, 0, 0,
     0, 0, 0, 0, 0, 0, 0, 0, 0, 0, 0, 0, 0, 0, 0, 0, 0, 0, 0, 0,
     0, 0, 0, 0, 0, 0, 0, 0, 0, 0, 0, 0, 0, 0, 0, 0, 0, 0, 0, 0,
     0, 0, 0, 0, 0, 0, 0, 0, 0, 0, 0, 0, 0, 0, 0, 0, 0, 0, 0, 0,
     0, 0, 0, 0, 0, 0, 0, 0, 0, 0, 0, 0, 0, 0, 0, 0, 0, 0, 0, 0,
     0, 0, 0, 0, 0, 0, 0, 0, 0, 0, 0, 0, 0, 0, 0, 0, 0, 0, 0, 0,
     0, 0, 0, 0, 0, 0, 0, 0, 0, 0, 0, 0, 0, 0, 0, 0, 0, 0, 0, 0,
     0, 0, 0, 0, 0, 0, 0, 0, 0, 0, 0, 0, 0, 0, 0, 0, 0, 0, 0, 0,
     0, 0, 0, 0, 0
  >>,
  \* 4
  <<
     11, 11, 11, 11, 11, 11, 11, 11, 12, 12, 12, 12, 12, 13, 13, 13, 14, 14, 15, 15,
     16, 17, 18, 19, 20, 22, 24, 27, 30, 34, 39, 47, 60, 81, 127, 295, 930, 182, 102, 71,
     56, 46, 40, 36, 33, 31, 30, 30, 30, 31, 33, 37, 43, 53, 74, 132, 994, 164, 73, 46,
     33, 26, 21, 18, 15, 13, 12, 11, 10, 9, 8, 8, 7, 7, 6, 6, 5, 5, 5, 5,
     4, 4, 4, 4, 4, 4, 3, 3, 3, 3, 3, 3, 3, 3, 3, 3, 2, 2, 2, 2,
     2, 2, 2, 2, 2, 2, 2, 2, 2, 2, 2, 2, 2, 2, 2, 2, 2, 1, 1, 1,
     1, 1, 1, 1, 1, 1, 1, 1, 1, 1, 1, 1, 1, 1, 1, 1, 1, 1, 1, 1,
     1, 1, 1, 1, 1, 1, 1, 1, 1, 1, 1, 1, 1, 1, 1, 1, 1, 1, 1, 1,
     1, 1, 1, 1, 1, 1, 1, 1, 1, 1, 1, 1, 1, 1, 1, 1, 1, 1, 1, 1,
     1, 1, 1, 1, 1, 1, 1, 1, 1, 1, 1, 1, 1, 1, 1, 0, 0, 0, 0, 0,
     0, 0, 0, 0, 0, 0, 0, 0, 0, 0, 0, 0, 0, 0, 0, 0, 0, 0, 0, 0,
     0, 0, 0, 0, 0, 0, 0, 0, 0, 0, 0, 0, 0, 0, 0, 0, 0, 0, 0, 0,
     0, 0, 0, 0, 0, 0, 0, 0, 0, 0, 0, 0, 0, 0, 0, 0, 0, 0, 0, 0,
     0, 0, 0, 0, 0, 0, 0, 0, 0, 0, 0, 0, 0, 0, 0, 0, 0, 0, 0, 0,
     0, 0, 0, 0, 0, 0, 0, 0, 0, 0, 0, 0, 0, 0, 0, 0, 0, 0, 0, 0,
     0, 0, 0, 0, 0, 0, 0, 0, 0, 0, 0, 0, 0, 0, 0, 0, 0, 0, 0, 0,
     0, 0, 0, 0, 0, 0, 0, 0, 0, 0, 0, 0, 0, 0, 0, 0, 0, 0, 0, 0,
     0, 0, 0, 0, 0, 0, 0, 0, 0, 0, 0, 0, 0, 0, 0, 0, 0, 0, 0, 0,
     0, 0, 0, 0, 0, 0, 0, 0, 0, 0, 0, 0, 0, 0, 0, 0, 0, 0, 0, 0,
     0, 0, 0, 0, 0, 0, 0, 0, 0, 0, 0, 0, 0, 0, 0, 0, 0, 0, 0, 0,
     0, 0, 0, 0, 0, 0, 0, 0, 0, 0, 0, 0, 0, 0, 0, 0, 0, 0, 0, 0,
     0, 0, 0, 0, 0, 0, 0, 0, 0, 0, 0, 0, 0, 0, 0, 0, 0, 0, 0, 0,
     0, 0, 0, 0, 0, 0, 0, 0, 0, 0, 0, 0, 0, 0, 0, 0, 0, 0, 0, 0,
     0, 0, 0, 0, 0, 0, 0, 0, 0, 0, 0, 0, 0, 0, 0, 0, 0, 0, 0, 0,
     0, 0, 0, 0, 0, 0, 0, 0, 0, 0, 0, 0, 0, 0, 0, 0, 0, 0, 0, 0,
     0, 0, 0, 0, 0, 0, 0, 0, 0, 0, 0, 0, 0, 0, 0, 0, 0, 0, 0, 0,
     0, 0, 0, 0, 0, 0, 0, 0, 0, 0, 0, 0, 0, 0, 0, 0, 0, 0, 0, 0,
     0, 0, 0, 0, 0, 0, 0, 0, 0, 0, 0, 0, 0, 0, 0, 0, 0, 0, 0, 0,
     0, 0, 0, 0, 0, 0, 0, 0, 0, 0, 0, 0, 0, 0, 0, 0, 0, 0, 0, 0,
     0, 0, 0, 0, 0, 0, 0, 0, 0, 0, 0, 0, 0, 0, 0, 0, 0, 0, 0, 0,
     0, 0, 0, 0, 0, 0, 0, 0, 0, 0, 0, 0, 0, 0, 0, 0, 0, 0, 0, 0,
     0, 0, 0, 0, 0, 0, 0, 0, 0, 0, 0, 0, 0, 0, 0, 0, 0, 0, 0, 0,
     0, 0, 0, 0, 0, 0, 0, 0, 0, 0, 0, 0, 0, 0, 0, 0, 0, 0, 0, 0,
     0, 0, 0, 0, 0, 0, 0, 0, 0, 0, 0, 0, 0, 0, 0, 0, 0, 0, 0, 0,
     0, 0, 0, 0, 0, 0, 0, 0, 0, 0, 0, 0, 0, 0, 0, 0, 0, 0, 0, 0,
     0, 0, 0, 0, 0, 0, 0, 0, 0, 0, 0, 0, 0, 0, 0, 0, 0, 0, 0, 0,
     0, 0, 0, 0, 0, 0, 0, 0, 0, 0, 0, 0, 0, 0, 0, 0, 0, 0, 0, 0,
     0, 0, 0, 0, 0, 0, 0, 0, 0, 0, 0, 0, 0, 0, 0, 0, 0, 0, 0, 0,
     0, 0, 0, 0, 0, 0, 0, 0, 0, 0, 0, 0, 0, 0, 0, 0, 0, 0, 0, 0,
     0, 0, 0, 0, 0, 0, 0, 0, 0, 0, 0, 0, 0, 0, 0, 0, 0, 0, 0, 0,
     0, 0, 0, 0, 0, 0, 0, 0, 0, 0, 0, 0, 0, 0, 0, 0, 0, 0, 0, 0,
     0, 0, 0, 0, 0, 0, 0, 0, 0, 0, 0, 0, 0, 0, 0, 0, 0, 0, 0, 0,
     0, 0, 0, 0, 0, 0, 0, 0, 0, 0, 0, 0, 0, 0, 0, 0, 0, 0, 0, 0,
     0, 0, 0, 0, 0, 0, 0, 0, 0, 0, 0, 0, 0, 0, 0, 0, 0, 0, 0, 0,
     0, 0, 0, 0, 0, 0, 0, 0, 0, 0, 0, 0, 0, 0, 0, 0, 0, 0, 0, 0,
     0, 0, 0, 0, 0, 0, 0, 0, 0, 0, 0, 0, 0, 0, 0, 0, 0, 0, 0, 0,
     0, 0, 0, 0, 0, 0, 0, 0, 0, 0, 0, 0, 0, 0, 0, 0, 0, 0, 0, 0,
     0, 0, 0, 0, 0, 0, 0, 0, 0, 0, 0, 0, 0, 0, 0, 0, 0, 0, 0, 0,
     0, 0, 0, 0, 0, 0, 0, 0, 0, 0, 0, 0, 0, 0, 0, 0, 0, 0, 0, 0,
     0, 0, 0, 0, 0, 0, 0, 0, 0, 0, 0, 0, 0, 0, 0, 0, 0, 0, 0, 0,
     0, 0, 0, 0, 0, 0, 0, 0, 0, 0, 0, 0, 0, 0, 0, 0, 0, 0, 0, 0,
     0, 0, 0, 0, 0
  >>,
  \* 5
  <<
     9, 9, 9, 9, 9, 9, 10, 10, 10, 10, 10, 10, 11, 11, 11, 12, 12, 13, 13, 14,
     15, 16, 17, 18, 19, 21, 23, 26, 29, 33, 39, 47, 59, 81, 127, 295, 929, 181, 101, 70,
     54, 44, 37, 32, 29, 26, 24, 22, 21, 19, 18, 18, 17, 17, 17, 17, 17, 18, 20, 23,
     30, 50, 1028, 40, 17, 10, 7, 5, 4, 4, 3, 3, 3, 3, 3, 3, 3, 3, 3, 3,
     3, 3, 3, 3, 3, 3, 3, 3, 3, 3, 3, 3, 3, 3, 3, 3, 3, 3, 3, 3,
     2, 2, 2, 2, 2, 2, 2, 2, 2, 2, 2, 2, 2, 2, 2, 2, 2, 2, 2, 2,
     2, 2, 2, 2, 2, 2, 2, 2, 2, 2, 2, 2, 2, 2, 2, 2, 2, 2, 2, 2,
     2, 2, 2, 2, 2, 2, 2, 2, 2, 2, 2, 2, 2, 2, 2, 2, 2, 1, 1, 1,
     1, 1, 1, 1, 1, 1, 1, 1, 1, 1, 1, 1, 1, 1, 1, 1, 1, 1, 1, 1,
     1, 1, 1, 1, 1, 1, 1, 1, 1, 1, 1, 1, 1, 1, 1, 1, 1, 1, 1, 1,
     1, 1, 1, 1, 1, 1, 1, 1, 1, 1, 1, 1, 1, 1, 1, 1, 1, 1, 1, 1,
     1, 1, 1, 1, 1, 1, 1, 1, 1, 1, 1, 1, 1, 1, 1, 1, 1, 1, 1, 1,
     1, 1, 1, 1, 1, 1, 1, 1, 1, 1, 1, 1, 1, 1, 1, 1, 1, 1, 1, 1,
     1, 1, 1, 1, 1, 1, 1, 1, 1, 1, 1, 1, 1, 1, 1, 1, 1, 1, 1, 1,
     1, 1, 1, 1, 1, 1, 1, 1, 1, 1, 1, 1, 1, 1, 1, 1, 1, 1, 1, 1,
     1, 1, 1, 1, 1, 1, 1, 1, 1, 1, 1, 1, 1, 1, 1, 1, 1, 1, 1, 1,
     1, 1, 1, 1, 1, 1, 1, 1, 1, 1, 1, 1, 1, 1, 1, 1, 1, 1, 1, 1,
     1, 1, 1, 1, 1, 1, 1, 1, 1, 1, 1, 1, 1, 1, 1, 1, 1, 1, 1, 1,
     1, 1, 1, 1, 1, 1, 1, 1, 1, 1, 1, 1, 1, 1, 1, 1, 1, 1, 1, 1,
     1, 1, 1, 1, 1, 1, 1, 1, 1, 1, 1, 1, 1, 1, 1, 1, 1, 1, 1, 1,
     1, 1, 1, 1, 1, 1, 1, 1, 1, 1, 1, 1, 1, 1, 1, 1, 1, 1, 1, 1,
     1, 1, 1, 1, 1, 1, 1, 1, 1, 1, 1, 1, 1, 1, 1, 1, 1, 1, 1, 1,
     1, 1, 1, 1, 1, 1, 1, 1, 1, 1, 1, 1, 1, 1, 1, 1, 1, 1, 1, 1,
     1, 1, 1, 1, 1, 1, 1, 1, 1, 1, 1, 1, 1, 1, 1, 1, 1, 1, 1, 1,
     1, 1, 1, 1, 0, 0, 0, 0, 0, 0, 0, 0, 0, 0, 0, 0, 0, 0, 0, 0,
     0, 0, 0, 0, 0, 0, 0, 0, 0, 0, 0, 0, 0, 0, 0, 0, 0, 0, 0, 0,
     0, 0, 0, 0, 0, 0, 0, 0, 0, 0, 0, 0, 0, 0, 0, 0, 0, 0, 0, 0,
     0, 0, 0, 0, 0, 0, 0, 0, 0, 0, 0, 0, 0, 0, 0, 0, 0, 0, 0, 0,
     0, 0, 0, 0, 0, 0, 0, 0, 0, 0, 0, 0, 0, 0, 0, 0, 0, 0, 0, 0,
     0, 0, 0, 0, 0, 0, 0, 0, 0, 0, 0, 0, 0, 0, 0, 0, 0, 0, 0, 0,
     0, 0, 0, 0, 0, 0, 0, 0, 0, 0, 0, 0, 0, 0, 0, 0, 0, 0, 0, 0,
     0, 0, 0, 0, 0, 0, 0, 0, 0, 0, 0, 0, 0, 0, 0, 0, 0, 0, 0, 0,
     0, 0, 0, 0, 0, 0, 0, 0, 0, 0, 0, 0, 0, 0, 0, 0, 0, 0, 0, 0,
     0, 0, 0, 0, 0, 0, 0, 0, 0, 0, 0, 0, 0, 0, 0, 0, 0, 0, 0, 0,
     0, 0, 0, 0, 0, 0, 0, 0, 0, 0, 0, 0, 0, 0, 0, 0, 0, 0, 0, 0,
     0, 0, 0, 0, 0, 0, 0, 0, 0, 0, 0, 0, 0, 0, 0, 0, 0, 0, 0, 0,
     0, 0, 0, 0, 0, 0, 0, 0, 0, 0, 0, 0, 0, 0, 0, 0, 0, 0, 0, 0,
     0, 0, 0, 0, 0, 0, 0, 0, 0, 0, 0, 0, 0, 0, 0, 0, 0, 0, 0, 0,
     0, 0, 0, 0, 0, 0, 0, 0, 0, 0, 0, 0, 0, 0, 0, 0, 0, 0, 0, 0,
     0, 0, 0, 0, 0, 0, 0, 0, 0, 0, 0, 0, 0, 0, 0, 0, 0, 0, 0, 0,
     0, 0, 0, 0, 0, 0, 0, 0, 0, 0, 0, 0, 0, 0, 0, 0, 0, 0, 0, 0,
     0, 0, 0, 0, 0, 0, 0, 0, 0, 0, 0, 0, 0, 0, 0, 0, 0, 0, 0, 0,
     0, 0, 0, 0, 0, 0, 0, 0, 0, 0, 0, 0, 0, 0, 0, 0, 0, 0, 0, 0,
     0, 0, 0, 0, 0, 0, 0, 0, 0, 0, 0, 0, 0, 0, 0, 0, 0, 0, 0, 0,
     0, 0, 0, 0, 0, 0, 0, 0, 0, 0, 0, 0, 0, 0, 0, 0, 0, 0, 0, 0,
     0, 0, 0, 0, 0, 0, 0, 0, 0, 0, 0, 0, 0, 0, 0, 0, 0, 0, 0, 0,
     0, 0, 0, 0, 0, 0, 0, 0, 0, 0, 0, 0, 0, 0, 0, 0, 0, 0, 0, 0,
     0, 0, 0, 0, 0, 0, 0, 0, 0, 0, 0, 0, 0, 0, 0, 0, 0, 0, 0, 0,
     0, 0, 0, 0, 0, 0, 0, 0, 0, 0, 0, 0, 0, 0, 0, 0, 0, 0, 0, 0,
     0, 0, 0, 0, 0, 0, 0, 0, 0, 0, 0, 0, 0, 0, 0, 0, 0, 0, 0, 0,
     0, 0, 0, 0, 0, 0, 0, 0, 0, 0, 0, 0, 0, 0, 0, 0, 0, 0, 0, 0,
     0, 0, 0, 0, 0
  >>,
  \* 6
  <<
     18, 18, 18, 18, 18, 18, 18, 19, 19, 19, 19, 20, 20, 20, 21, 21, 22, 22, 23, 23,
     24, 25, 26, 28, 29, 31, 33, 36, 39, 43, 49, 57, 70, 91, 137, 305, 919, 171, 90, 59,
     43, 33, 27, 22, 19, 17, 15, 14, 14, 14, 14, 14, 15, 16, 18, 19, 21, 23, 26, 29,
     33, 38, 44, 53, 65, 84, 118, 194, 526, 768, 224, 132, 94, 73, 60, 51, 44, 39, 35, 32,
     29, 27, 25, 23, 22, 20, 19, 18, 17, 17, 16, 15, 14, 14, 13, 13, 12, 12, 12, 11,
     11, 11, 10, 10, 10, 9, 9, 9, 9, 9, 8, 8, 8, 8, 8, 7, 7, 7, 7, 7,
     7, 7, 6, 6, 6, 6, 6, 6, 6, 6, 6, 6, 5, 5, 5, 5, 5, 5, 5, 5,
     5, 5, 5, 5, 5, 5, 5, 4, 4, 4, 4, 4, 4, 4, 4, 4, 4, 4, 4, 4,
     4, 4, 4, 4, 4, 4, 4, 4, 4, 3, 3, 3, 3, 3, 3, 3, 3, 3, 3, 3,
     3, 3, 3, 3, 3, 3, 3, 3, 3, 3, 3, 3, 3, 3, 3, 3, 3, 3, 3, 3,
     3, 3, 3, 3, 3, 3, 3, 3, 3, 3, 3, 3, 2, 2, 2, 2, 2, 2, 2, 2,
     2, 2, 2, 2, 2, 2, 2, 2, 2, 2, 2, 2, 2, 2, 2, 2, 2, 2, 2, 2,
     2, 2, 2, 2, 2, 2, 2, 2, 2, 2, 2, 2, 2, 2, 2, 2, 2, 2, 2, 2,
     2, 2, 2, 2, 2, 2, 2, 2, 2, 2, 2, 2, 2, 2, 2, 2, 2, 2, 2, 2,
     2, 2, 2, 2, 2, 2, 2, 2, 2, 2, 2, 2, 2, 2, 2, 2, 2, 2, 2, 2,
     2, 2, 2, 2, 2, 2, 2, 2, 2, 2, 2, 2, 2, 2, 2, 2, 2, 2, 2, 2,
     1, 1, 1, 1, 1, 1, 1, 1, 1, 1, 1, 1, 1, 1, 1, 1, 1, 1, 1, 1,
     1, 1, 1, 1, 1, 1, 1, 1, 1, 1, 1, 1, 1, 1, 1, 1, 1, 1, 1, 1,
     1, 1, 1, 1, 1, 1, 1, 1, 1, 1, 1, 1, 1, 1, 1, 1, 1, 1, 1, 1,
     1, 1, 1, 1, 1, 1, 1, 1, 1, 1, 1, 1, 1, 1, 1, 1, 1, 1, 1, 1,
     1, 1, 1, 1, 1, 1, 1, 1, 1, 1, 1, 1, 1, 1, 1, 1, 1, 1, 1, 1,
     1, 1, 1, 1, 1, 1, 1, 1, 1, 1, 1, 1, 1, 1, 1, 1, 1, 1, 1, 1,
     1, 1, 1, 1, 1, 1, 1, 1, 1, 1, 1, 1, 1, 1, 1, 1, 1, 1, 1, 1,
     1, 1, 1, 1, 1, 1, 1, 1, 1, 1, 1, 1, 1, 1, 1, 1, 1, 1, 1, 1,
     1, 1, 1, 1, 1, 1, 1, 1, 1, 1, 1, 1, 1, 1, 1, 1, 1, 1, 1, 1,
     1, 1, 1, 1, 1, 1, 1, 1, 1, 1, 1, 1, 1, 1, 1, 1, 1, 1, 1, 1,
     1, 1, 1, 1, 1, 1, 1, 1, 1, 1, 1, 1, 1, 1, 1, 1, 1, 1, 1, 1,
     1, 1, 1, 1, 1, 1, 1, 1, 1, 1, 1, 1, 1, 1, 1, 1, 1, 1, 1, 1,
     1, 1, 1, 1, 1, 1, 1, 1, 1, 1, 1, 1, 1, 1, 1, 1, 1, 1, 1, 1,
     1, 1, 1, 1, 1, 1, 1, 1, 1, 1, 1, 1, 1, 1, 1, 1, 1, 1, 1, 1,
     1, 1, 1, 1, 1, 1, 1, 1, 1, 1, 1, 1, 1, 1, 1, 1, 1, 1, 1, 1,
     1, 1, 1, 1, 1, 1, 1, 1, 1, 1, 1, 1, 1, 1, 1, 1, 1, 1, 1, 1,
     1, 1, 1, 1, 1, 1, 1, 1, 1, 1, 1, 1, 1, 1, 1, 1, 1, 1, 1, 1,
     1, 1, 1, 1, 1, 1, 1, 1, 1, 1, 1, 1, 1, 1, 1, 1, 1, 1, 1, 1,
     1, 1, 1, 1, 1, 1, 1, 1, 1, 1, 1, 1, 1, 1, 1, 1, 1, 1, 1, 1,
     1, 1, 1, 1, 1, 1, 1, 1, 1, 1, 1, 1, 1, 1, 1, 1, 1, 1, 1, 1,
     1, 1, 1, 1, 1, 1, 1, 1, 1, 1, 1, 1, 1, 1, 1, 1, 1, 1, 1, 1,
     1, 1, 1, 1, 1, 1, 1, 1, 1, 1, 1, 1, 1, 1, 1, 1, 1, 1, 1, 1,
     1, 1, 1, 1, 1, 1, 1, 1, 1, 1, 1, 1, 1, 1, 1, 1, 1, 1, 1, 1,
     1, 1, 1, 1, 1, 1, 1, 1, 1, 1, 1, 1, 1, 1, 1, 1, 1, 1, 1, 1,
     1, 1, 1, 1, 1, 1, 1, 1, 1, 1, 1, 1, 1, 1, 1, 1, 1, 1, 1, 1,
     1, 1, 1, 1, 1, 1, 1, 1, 1, 1, 1, 1, 1, 1, 1, 1, 1, 1, 1, 1,
     1, 1, 1, 1, 1, 1, 1, 1, 1, 1, 1, 1, 1, 1, 1, 1, 1, 1, 1, 1,
     1, 1, 1, 1, 1, 1, 1, 1, 1, 1, 1, 1, 1, 1, 1, 1, 1, 1, 1, 1,
     1, 1, 1, 1, 1, 1, 1, 1, 1, 1, 1, 1, 1, 1, 1, 1, 1, 1, 1, 1,
     1, 1, 1, 1, 1, 1, 1, 1, 1, 1, 1, 1, 1, 1, 1, 1, 1, 1, 1, 1,
     1, 1, 1, 1, 1, 1, 1, 1, 1, 1, 1, 1, 1, 1, 1, 1, 1, 1, 1, 1,
     1, 1, 1, 1, 1, 1, 1, 1, 1, 1, 1, 1, 1, 1, 1, 1, 1, 1, 1, 1,
     1, 1, 1, 1, 1, 1, 1, 1, 1, 1, 1, 1, 1, 1, 1, 1, 1, 1, 1, 1,
     1, 1, 1, 1, 1, 1, 1, 1, 1, 1, 1, 1, 1, 1, 1, 1, 1, 1, 1, 1,
     1, 1, 1, 1, 1, 1, 1, 1, 1, 1, 1, 1, 1, 1, 1, 1, 1, 1, 1, 1,
     1, 1, 1, 1, 1
  >>,
  \* B
  <<
     12, 12, 12, 12, 12, 12, 12, 12, 12, 13, 13, 13, 13, 14, 14, 15, 15, 16, 16, 17,
     18, 19, 20, 21, 23, 24, 27, 29, 32, 37, 43, 51, 63, 85, 131, 299, 925, 177, 96, 65,
     49, 38, 31, 26, 22, 19, 17, 15, 13, 11, 10, 9, 8, 7, 6, 5, 4, 3, 2, 2,
     2, 2, 3, 4, 5, 7, 9, 11, 13, 16, 21, 26, 35, 50, 81, 185, 986, 144, 80, 56,
     44, 37, 31, 28, 25, 23, 21, 19, 18, 17, 16, 15, 14, 14, 13, 13, 12, 12, 11, 11,
     11, 10, 10, 10, 10, 9, 9, 9, 9, 9, 8, 8, 8, 8, 8, 8, 7, 7, 7, 7,
     7, 7, 7, 7, 6, 6, 6, 6, 6, 6, 6, 6, 6, 6, 6, 6, 6, 5, 5, 5,
     5, 5, 5, 5, 5, 5, 5, 5, 5, 5, 5, 5, 5, 5, 5, 5, 4, 4, 4, 4,
     4, 4, 4, 4, 4, 4, 4, 4, 4, 4, 4, 4, 4, 4, 4, 4, 4, 4, 4, 4,
     4, 4, 4, 4, 4, 4, 4, 4, 3, 3, 3, 3, 3, 3, 3, 3, 3, 3, 3, 3,
     3, 3, 3, 3, 3, 3, 3, 3, 3, 3, 3, 3, 3, 3, 3, 3, 3, 3, 3, 3,
     3, 3, 3, 3, 3, 3, 3, 3, 3, 3, 3, 3, 3, 3, 3, 3, 3, 3, 3, 3,
     3, 3, 3, 3, 3, 3, 3, 3, 3, 3, 2, 2, 2, 2, 2, 2, 2, 2, 2, 2,
     2, 2, 2, 2, 2, 2, 2, 2, 2, 2, 2, 2, 2, 2, 2, 2, 2, 2, 2, 2,
     2, 2, 2, 2, 2, 2, 2, 2, 2, 2, 2, 2, 2, 2, 2, 2, 2, 2, 2, 2,
     2, 2, 2, 2, 2, 2, 2, 2, 2, 2, 2, 2, 2, 2, 2, 2, 2, 2, 2, 2,
     2, 2, 2, 2, 2, 2, 2, 2, 2, 2, 2, 2, 2, 2, 2, 2, 2, 2, 2, 2,
     2, 2, 2, 2, 2, 2, 2, 2, 2, 2, 2, 2, 2, 2, 2, 2, 2, 2, 2, 2,
     2, 2, 2, 2, 2, 2, 2, 2, 2, 2, 2, 2, 2, 2, 2, 2, 2, 2, 2, 2,
     2, 2, 2, 2, 2, 2, 2, 2, 2, 2, 2, 2, 2, 2, 2, 2, 2, 2, 2, 2,
     2, 2, 2, 2, 2, 2, 2, 2, 2, 2, 2, 2, 2, 2, 2, 1, 1, 1, 1, 1,
     1, 1, 1, 1, 1, 1, 1, 1, 1, 1, 1, 1, 1, 1, 1, 1, 1, 1, 1, 1,
     1, 1, 1, 1, 1, 1, 1, 1, 1, 1, 1, 1, 1, 1, 1, 1, 1, 1, 1, 1,
     1, 1, 1, 1, 1, 1, 1, 1, 1, 1, 1, 1, 1, 1, 1, 1, 1, 1, 1, 1,
     1, 1, 1, 1, 1, 1, 1, 1, 1, 1, 1, 1, 1, 1, 1, 1, 1, 1, 1, 1,
     1, 1, 1, 1, 1, 1, 1, 1, 1, 1, 1, 1, 1, 1, 1, 1, 1, 1, 1, 1,
     1, 1, 1, 1, 1, 1, 1, 1, 1, 1, 1, 1, 1, 1, 1, 1, 1, 1, 1, 1,
     1, 1, 1, 1, 1, 1, 1, 1, 1, 1, 1, 1, 1, 1, 1, 1, 1, 1, 1, 1,
     1, 1, 1, 1, 1, 1, 1, 1, 1, 1, 1, 1, 1, 1, 1, 1, 1, 1, 1, 1,
     1, 1, 1, 1, 1, 1, 1, 1, 1, 1, 1, 1, 1, 1, 1, 1, 1, 1, 1, 1,
     1, 1, 1, 1, 1, 1, 1, 1, 1, 1, 1, 1, 1, 1, 1, 1, 1, 1, 1, 1,
     1, 1, 1, 1, 1, 1, 1, 1, 1, 1, 1, 1, 1, 1, 1, 1, 1, 1, 1, 1,
     1, 1, 1, 1, 1, 1, 1, 1, 1, 1, 1, 1, 1, 1, 1, 1, 1, 1, 1, 1,
     1, 1, 1, 1, 1, 1, 1, 1, 1, 1, 1, 1, 1, 1, 1, 1, 1, 1, 1, 1,
     1, 1, 1, 1, 1, 1, 1, 1, 1, 1, 1, 1, 1, 1, 1, 1, 1, 1, 1, 1,
     1, 1, 1, 1, 1, 1, 1, 1, 1, 1, 1, 1, 1, 1, 1, 1, 1, 1, 1, 1,
     1, 1, 1, 1, 1, 1, 1, 1, 1, 1, 1, 1, 1, 1, 1, 1, 1, 1, 1, 1,
     1, 1, 1, 1, 1, 1, 1, 1, 1, 1, 1, 1, 1, 1, 1, 1, 1, 1, 1, 1,
     1, 1, 1, 1, 1, 1, 1, 1, 1, 1, 1, 1, 1, 1, 1, 1, 1, 1, 1, 1,
     1, 1, 1, 1, 1, 1, 1, 1, 1, 1, 1, 1, 1, 1, 1, 1, 1, 1, 1, 1,
     1, 1, 1, 1, 1, 1, 1, 1, 1, 1, 1, 1, 1, 1, 1, 1, 1, 1, 1, 1,
     1, 1, 1, 1, 1, 1, 1, 1, 1, 1, 1, 1, 1, 1, 1, 1, 1, 1, 1, 1,
     1, 1, 1, 1, 1, 1, 1, 1, 1, 1, 1, 1, 1, 1, 1, 1, 1, 1, 1, 1,
     1, 1, 1, 1, 1, 1, 1, 1, 1, 1, 1, 1, 1, 1, 1, 1, 1, 1, 1, 1,
     1, 1, 1, 1, 1, 1, 1, 1, 1, 1, 1, 1, 1, 1, 1, 1, 1, 1, 1, 1,
     1, 1, 1, 1, 1, 1, 1, 1, 1, 1, 1, 1, 1, 1, 1, 1, 1, 1, 1, 1,
     1, 1, 1, 1, 1, 1, 1, 1, 1, 1, 1, 1, 1, 1, 1, 1, 1, 1, 1, 1,
     1, 1, 1, 1, 1, 1, 1, 1, 1, 1, 1, 1, 1, 1, 1, 1, 1, 1, 1, 1,
     1, 1, 1, 1, 1, 1, 1, 1, 1, 1, 1, 1, 1, 1, 1, 1, 1, 1, 1, 1,
     1, 1, 1, 1, 1, 1, 1, 1, 1, 1, 1, 1, 1, 1, 1, 1, 1, 1, 1, 1,
     1, 1, 1, 1, 1, 1, 1, 1, 1, 1, 1, 1, 1, 1, 1, 1, 1, 1, 1, 1,
     1, 1, 1, 1, 1
  >>,
  \* 7
  <<
     18, 18, 18, 18, 18, 18, 18, 18, 19, 19, 19, 19, 20, 20, 20, 21, 21, 22, 22, 23,
     24, 24, 25, 26, 28, 29, 30, 32, 34, 37, 40, 44, 49, 55, 64, 76, 96, 131, 210, 569,
     729, 216, 125, 87, 66, 53, 44, 38, 34, 32, 31, 32, 37, 46, 65, 123, 985, 173, 82, 55,
     42, 34, 29, 25, 23, 20, 19, 17, 16, 15, 14, 13, 12, 12, 11, 11, 10, 10, 9, 9,
     9, 8, 8, 8, 7, 7, 7, 7, 7, 6, 6, 6, 6, 6, 5, 5, 5, 5, 5, 5,
     5, 5, 5, 4, 4, 4, 4, 4, 4, 4, 4, 4, 4, 4, 4, 3, 3, 3, 3, 3,
     3, 3, 3, 3, 3, 3, 3, 3, 3, 3, 3, 3, 3, 3, 3, 2, 2, 2, 2, 2,
     2, 2, 2, 2, 2, 2, 2, 2, 2, 2, 2, 2, 2, 2, 2, 2, 2, 2, 2, 2,
     2, 2, 2, 2, 2, 2, 2, 2, 2, 2, 2, 2, 2, 2, 2, 2, 2, 2, 2, 2,
     1, 1, 1, 1, 1, 1, 1, 1, 1, 1, 1, 1, 1, 1, 1, 1, 1, 1, 1, 1,
     1, 1, 1, 1, 1, 1, 1, 1, 1, 1, 1, 1, 1, 1, 1, 1, 1, 1, 1, 1,
     1, 1, 1, 1, 1, 1, 1, 1, 1, 1, 1, 1, 1, 1, 1, 1, 1, 1, 1, 1,
     1, 1, 1, 1, 1, 1, 1, 1, 1, 1, 1, 1, 1, 1, 1, 1, 1, 1, 1, 1,
     1, 1, 1, 1, 1, 1, 1, 1, 1, 1, 1, 1, 1, 1, 1, 1, 1, 1, 1, 1,
     1, 1, 1, 1, 1, 1, 1, 1, 1, 1, 1, 1, 1, 1, 1, 1, 1, 1, 1, 1,
     1, 1, 1, 1, 1, 1, 1, 1, 1, 1, 1, 1, 1, 1, 1, 1, 1, 1, 1, 1,
     1, 1, 1, 1, 1, 1, 1, 1, 1, 1, 1, 1, 1, 1, 1, 1, 1, 1, 1, 1,
     1, 1, 1, 1, 1, 1, 1, 1, 1, 1, 1, 1, 1, 1, 1, 1, 1, 1, 1, 1,
     1, 1, 1, 1, 1, 1, 1, 1, 1, 1, 1, 1, 1, 1, 1, 1, 1, 1, 1, 1,
     1, 1, 1, 1, 1, 1, 1, 1, 1, 1, 1, 1, 1, 1, 1, 1, 1, 1, 1, 1,
     1, 1, 1, 1, 1, 1, 0, 0, 0, 0, 0, 0, 0, 0, 0, 0, 0, 0, 0, 0,
     0, 0, 0, 0, 0, 0, 0, 0, 0, 0, 0, 0, 0, 0, 0, 0, 0, 0, 0, 0,
     0, 0, 0, 0, 0, 0, 0, 0, 0, 0, 0, 0, 0, 0, 0, 0, 0, 0, 0, 0,
     0, 0, 0, 0, 0, 0, 0, 0, 0, 0, 0, 0, 0, 0, 0, 0, 0, 0, 0, 0,
     0, 0, 0, 0, 0, 0, 0, 0, 0, 0, 0, 0, 0, 0, 0, 0, 0, 0, 0, 0,
     0, 0, 0, 0, 0, 0, 0, 0, 0, 0, 0, 0, 0, 0, 0, 0, 0, 0, 0, 0,
     0, 0, 0, 0, 0, 0, 0, 0, 0, 0, 0, 0, 0, 0, 0, 0, 0, 0, 0, 0,
     0, 0, 0, 0, 0, 0, 0, 0, 0, 0, 0, 0, 0, 0, 0, 0, 0, 0, 0, 0,
     0, 0, 0, 0, 0, 0, 0, 0, 0, 0, 0, 0, 0, 0, 0, 0, 0, 0, 0, 0,
     0, 0, 0, 0, 0, 0, 0, 0, 0, 0, 0, 0, 0, 0, 0, 0, 0, 0, 0, 0,
     0, 0, 0, 0, 0, 0, 0, 0, 0, 0, 0, 0, 0, 0, 0, 0, 0, 0, 0, 0,
     0, 0, 0, 0, 0, 0, 0, 0, 0, 0, 0, 0, 0, 0, 0, 0, 0, 0, 0, 0,
     0, 0, 0, 0, 0, 0, 0, 0, 0, 0, 0, 0, 0, 0, 0, 0, 0, 0, 0, 0,
     0, 0, 0, 0, 0, 0, 0, 0, 0, 0, 0, 0, 0, 0, 0, 0, 0, 0, 0, 0,
     0, 0, 0, 0, 0, 0, 0, 0, 0, 0, 0, 0, 0, 0, 0, 0, 0, 0, 0, 0,
     0, 0, 0, 0, 0, 0, 0, 0, 0, 0, 0, 0, 0, 0, 0, 0, 0, 0, 0, 0,
     0, 0, 0, 0, 0, 0, 0, 0, 0, 0, 0, 0, 0, 0, 0, 0, 0, 0, 0, 0,
     0, 0, 0, 0, 0, 0, 0, 0, 0, 0, 0, 0, 0, 0, 0, 0, 0, 0, 0, 0,
     0, 0, 0, 0, 0, 0, 0, 0, 0, 0, 0, 0, 0, 0, 0, 0, 0, 0, 0, 0,
     0, 0, 0, 0, 0, 0, 0, 0, 0, 0, 0, 0, 0, 0, 0, 0, 0, 0, 0, 0,
     0, 0, 0, 0, 0, 0, 0, 0, 0, 0, 0, 0, 0, 0, 0, 0, 0, 0, 0, 0,
     0, 0, 0, 0, 0, 0, 0, 0, 0, 0, 0, 0, 0, 0, 0, 0, 0, 0, 0, 0,
     0, 0, 0, 0, 0, 0, 0, 0, 0, 0, 0, 0, 0, 0, 0, 0, 0, 0, 0, 0,
     0, 0, 0, 0, 0, 0, 0, 0, 0, 0, 0, 0, 0, 0, 0, 0, 0, 0, 0, 0,
     0, 0, 0, 0, 0, 0, 0, 0, 0, 0, 0, 0, 0, 0, 0, 0, 0, 0, 0, 0,
     0, 0, 0, 0, 0, 0, 0, 0, 0, 0, 0, 0, 0, 0, 0, 0, 0, 0, 0, 0,
     0, 0, 0, 0, 0, 0, 0, 0, 0, 0, 0, 0, 0, 0, 0, 0, 0, 0, 0, 0,
     0, 0, 0, 0, 0, 0, 0, 0, 0, 0, 0, 0, 0, 0, 0, 0, 0, 0, 0, 0,
     0, 0, 0, 0, 0, 0, 0, 0, 0, 0, 0, 0, 0, 0, 0, 0, 0, 0, 0, 0,
     0, 0, 0, 0, 0, 0, 0, 0, 0, 0, 0, 0, 0, 0, 0, 0, 0, 0, 0, 0,
     0, 0, 0, 0, 0, 0, 0, 0, 0, 0, 0, 0, 0, 0, 0, 0, 0, 0, 0, 0,
     0, 0, 0, 0, 0
  >>,
  \* 8
  <<
     16, 16, 16, 16, 16, 16, 16, 17, 17, 17, 17, 17, 18, 18, 18, 19, 19, 20, 20, 21,
     22, 22, 23, 24, 25, 27, 28, 30, 32, 35, 38, 42, 46, 53, 61, 74, 93, 128, 207, 566,
     732, 219, 127, 89, 69, 55, 46, 40, 35, 31, 28, 25, 23, 22, 20, 19, 19, 19, 19, 21,
     27, 46, 1023, 46, 23, 16, 13, 11, 10, 9, 9, 8, 8, 7, 7, 7, 6, 6, 6, 6,
     5, 5, 5, 5, 5, 5, 4, 4, 4, 4, 4, 4, 4, 4, 3, 3, 3, 3, 3, 3,
     3, 3, 3, 3, 3, 3, 3, 3, 2, 2, 2, 2, 2, 2, 2, 2, 2, 2, 2, 2,
     2, 2, 2, 2, 2, 2, 2, 2, 2, 2, 2, 2, 2, 2, 2, 2, 1, 1, 1, 1,
     1, 1, 1, 1, 1, 1, 1, 1, 1, 1, 1, 1, 1, 1, 1, 1, 1, 1, 1, 1,
     1, 1, 1, 1, 1, 1, 1, 1, 1, 1, 1, 1, 1, 1, 1, 1, 1, 1, 1, 1,
     1, 1, 1, 1, 1, 1, 1, 1, 1, 1, 1, 1, 1, 1, 1, 1, 1, 1, 1, 1,
     1, 1, 1, 1, 1, 1, 1, 1, 1, 1, 1, 1, 1, 1, 1, 1, 1, 1, 1, 1,
     1, 1, 1, 1, 1, 1, 0, 0, 0, 0, 0, 0, 0, 0, 0, 0, 0, 0, 0, 0,
     0, 0, 0, 0, 0, 0, 0, 0, 0, 0, 0, 0, 0, 0, 0, 0, 0, 0, 0, 0,
     0, 0, 0, 0, 0, 0, 0, 0, 0, 0, 0, 0, 0, 0, 0, 0, 0, 0, 0, 0,
     0, 0, 0, 0, 0, 0, 0, 0, 0, 0, 0, 0, 0, 0, 0, 0, 0, 0, 0, 0,
     0, 0, 0, 0, 0, 0, 0, 0, 0, 0, 0, 0, 0, 0, 0, 0, 0, 0, 0, 0,
     0, 0, 0, 0, 0, 0, 0, 0, 0, 0, 0, 0, 0, 0, 0, 0, 0, 0, 0, 0,
     0, 0, 0, 0, 0, 0, 0, 0, 0, 0, 0, 0, 0, 0, 0, 0, 0, 0, 0, 0,
     0, 0, 0, 0, 0, 0, 0, 0, 0, 0, 0, 0, 0, 0, 0, 0, 0, 0, 0, 0,
     0, 0, 0, 0, 0, 0, 0, 0, 0, 0, 0, 0, 0, 0, 0, 0, 0, 0, 0, 0,
     0, 0, 0, 0, 0, 0, 0, 0, 0, 0, 0, 0, 0, 0, 0, 0, 0, 0, 0, 0,
     0, 0, 0, 0, 0, 0, 0, 0, 0, 0, 0, 0, 0, 0, 0, 0, 0, 0, 0, 0,
     0, 0, 0, 0, 0, 0, 0, 0, 0, 0, 0, 0, 0, 0, 0, 0, 0, 0, 0, 0,
     0, 0, 0, 0, 0, 0, 0, 0, 0, 0, 0, 0, 0, 0, 0, 0, 0, 0, 0, 0,
     0, 0, 0, 0, 0, 0, 0, 0, 0, 0, 0, 0, 0, 0, 0, 0, 0, 0, 0, 0,
     0, 0, 0, 0, 0, 0, 0, 0, 0, 0, 0, 0, 0, 0, 0, 0, 0, 0, 0, 0,
     0, 0, 0, 0, 0, 0, 0, 0, 0, 0, 0, 0, 0, 0, 0, 0, 0, 0, 0, 0,
     0, 0, 0, 0, 0, 0, 0, 0, 0, 0, 0, 0, 0, 0, 0, 0, 0, 0, 0, 0,
     0, 0, 0, 0, 0, 0, 0, 0, 0, 0, 0, 0, 0, 0, 0, 0, 0, 0, 0, 0,
     0, 0, 0, 0, 0, 0, 0, 0, 0, 0, 0, 0, 0, 0, 0, 0, 0, 0, 0, 0,
     0, 0, 0, 0, 0, 0, 0, 0, 0, 0, 0, 0, 0, 0, 0, 0, 0, 0, 0, 0,
     0, 0, 0, 0, 0, 0, 0, 0, 0, 0, 0, 0, 0, 0, 0, 0, 0, 0, 0, 0,
     0, 0, 0, 0, 0, 0, 0, 0, 0, 0, 0, 0, 0, 0, 0, 0, 0, 0, 0, 0,
     0, 0, 0, 0, 0, 0, 0, 0, 0, 0, 0, 0, 0, 0, 0, 0, 0, 0, 0, 0,
     0, 0, 0, 0, 0, 0, 0, 0, 0, 0, 0, 0, 0, 0, 0, 0, 0, 0, 0, 0,
     0, 0, 0, 0, 0, 0, 0, 0, 0, 0, 0, 0, 0, 0, 0, 0, 0, 0, 0, 0,
     0, 0, 0, 0, 0, 0, 0, 0, 0, 0, 0, 0, 0, 0, 0, 0, 0, 0, 0, 0,
     0, 0, 0, 0, 0, 0, 0, 0, 0, 0, 0, 0, 0, 0, 0, 0, 0, 0, 0, 0,
     0, 0, 0, 0, 0, 0, 0, 0, 0, 0, 0, 0, 0, 0, 0, 0, 0, 0, 0, 0,
     0, 0, 0, 0, 0, 0, 0, 0, 0, 0, 0, 0, 0, 0, 0, 0, 0, 0, 0, 0,
     0, 0, 0, 0, 0, 0, 0, 0, 0, 0, 0, 0, 0, 0, 0, 0, 0, 0, 0, 0,
     0, 0, 0, 0, 0, 0, 0, 0, 0, 0, 0, 0, 0, 0, 0, 0, 0, 0, 0, 0,
     0, 0, 0, 0, 0, 0, 0, 0, 0, 0, 0, 0, 0, 0, 0, 0, 0, 0, 0, 0,
     0, 0, 0, 0, 0, 0, 0, 0, 0, 0, 0, 0, 0, 0, 0, 0, 0, 0, 0, 0,
     0, 0, 0, 0, 0, 0, 0, 0, 0, 0, 0, 0, 0, 0, 0, 0, 0, 0, 0, 0,
     0, 0, 0, 0, 0, 0, 0, 0, 0, 0, 0, 0, 0, 0, 0, 0, 0, 0, 0, 0,
     0, 0, 0, 0, 0, 0, 0, 0, 0, 0, 0, 0, 0, 0, 0, 0, 0, 0, 0, 0,
     0, 0, 0, 0, 0, 0, 0, 0, 0, 0, 0, 0, 0, 0, 0, 0, 0, 0, 0, 0,
     0, 0, 0, 0, 0, 0, 0, 0, 0, 0, 0, 0, 0, 0, 0, 0, 0, 0, 0, 0,
     0, 0, 0, 0, 0, 0, 0, 0, 0, 0, 0, 0, 0, 0, 0, 0, 0, 0, 0, 0,
     0, 0, 0, 0, 0, 0, 0, 0, 0, 0, 0, 0, 0, 0, 0, 0, 0, 0, 0, 0,
     0, 0, 0, 0, 0
  >>,
  \* 9
  <<
     25, 25, 25, 25, 25, 25, 25, 26, 26, 26, 26, 27, 27, 27, 28, 28, 29, 29, 30, 31,
     31, 32, 33, 34, 36, 37, 39, 41, 43, 46, 49, 53, 58, 64, 73, 86, 106, 141, 220, 580,
     718, 205, 113, 74, 53, 39, 30, 22, 17, 12, 8, 4, 2, 2, 5, 8, 11, 14, 18, 22,
     26, 32, 38, 47, 60, 80, 114, 190, 522, 771, 228, 135, 97, 76, 62, 53, 46, 41, 37, 34,
     31, 28, 26, 25, 23, 22, 21, 19, 18, 18, 17, 16, 15, 15, 14, 14, 13, 13, 12, 12,
     11, 11, 11, 10, 10, 10, 9, 9, 9, 9, 8, 8, 8, 8, 8, 7, 7, 7, 7, 7,
     7, 7, 6, 6, 6, 6, 6, 6, 6, 6, 5, 5, 5, 5, 5, 5, 5, 5, 5, 5,
     5, 4, 4, 4, 4, 4, 4, 4, 4, 4, 4, 4, 4, 4, 4, 4, 4, 4, 3, 3,
     3, 3, 3, 3, 3, 3, 3, 3, 3, 3, 3, 3, 3, 3, 3, 3, 3, 3, 3, 3,
     3, 3, 3, 3, 3, 3, 2, 2, 2, 2, 2, 2, 2, 2, 2, 2, 2, 2, 2, 2,
     2, 2, 2, 2, 2, 2, 2, 2, 2, 2, 2, 2, 2, 2, 2, 2, 2, 2, 2, 2,
     2, 2, 2, 2, 2, 2, 2, 2, 2, 2, 2, 2, 2, 2, 2, 2, 2, 2, 2, 2,
     2, 2, 2, 2, 1, 1, 1, 1, 1, 1, 1, 1, 1, 1, 1, 1, 1, 1, 1, 1,
     1, 1, 1, 1, 1, 1, 1, 1, 1, 1, 1, 1, 1, 1, 1, 1, 1, 1, 1, 1,
     1, 1, 1, 1, 1, 1, 1, 1, 1, 1, 1, 1, 1, 1, 1, 1, 1, 1, 1, 1,
     1, 1, 1, 1, 1, 1, 1, 1, 1, 1, 1, 1, 1, 1, 1, 1, 1, 1, 1, 1,
     1, 1, 1, 1, 1, 1, 1, 1, 1, 1, 1, 1, 1, 1, 1, 1, 1, 1, 1, 1,
     1, 1, 1, 1, 1, 1, 1, 1, 1, 1, 1, 1, 1, 1, 1, 1, 1, 1, 1, 1,
     1, 1, 1, 1, 1, 1, 1, 1, 1, 1, 1, 1, 1, 1, 1, 1, 1, 1, 1, 1,
     1, 1, 1, 1, 1, 1, 1, 1, 1, 1, 1, 1, 1, 1, 1, 1, 1, 1, 1, 1,
     1, 1, 1, 1, 1, 1, 1, 1, 1, 1, 1, 1, 1, 1, 1, 1, 1, 1, 1, 1,
     1, 1, 1, 1, 1, 1, 1, 1, 1, 1, 1, 1, 1, 1, 1, 1, 1, 1, 1, 1,
     1, 1, 1, 1, 1, 1, 1, 1, 1, 1, 1, 1, 1, 1, 1, 1, 1, 1, 1, 1,
     1, 1, 1, 1, 1, 1, 1, 1, 1, 1, 1, 1, 1, 1, 1, 1, 1, 1, 1, 1,
     1, 1, 1, 1, 1, 1, 1, 1, 1, 1, 1, 1, 1, 1, 1, 1, 1, 1, 1, 1,
     1, 1, 1, 1, 1, 1, 1, 1, 1, 1, 1, 1, 1, 1, 1, 1, 1, 1, 1, 1,
     1, 1, 0, 0, 0, 0, 0, 0, 0, 0, 0, 0, 0, 0, 0, 0, 0, 0, 0, 0,
     0, 0, 0, 0, 0, 0, 0, 0, 0, 0, 0, 0, 0, 0, 0, 0, 0, 0, 0, 0,
     0, 0, 0, 0, 0, 0, 0, 0, 0, 0, 0, 0, 0, 0, 0, 0, 0, 0, 0, 0,
     0, 0, 0, 0, 0, 0, 0, 0, 0, 0, 0, 0, 0, 0, 0, 0, 0, 0, 0, 0,
     0, 0, 0, 0, 0, 0, 0, 0, 0, 0, 0, 0, 0, 0, 0, 0, 0, 0, 0, 0,
     0, 0, 0, 0, 0, 0, 0, 0, 0, 0, 0, 0, 0, 0, 0, 0, 0, 0, 0, 0,
     0, 0, 0, 0, 0, 0, 0, 0, 0, 0, 0, 0, 0, 0, 0, 0, 0, 0, 0, 0,
     0, 0, 0, 0, 0, 0, 0, 0, 0, 0, 0, 0, 0, 0, 0, 0, 0, 0, 0, 0,
     0, 0, 0, 0, 0, 0, 0, 0, 0, 0, 0, 0, 0, 0, 0, 0, 0, 0, 0, 0,
     0, 0, 0, 0, 0, 0, 0, 0, 0, 0, 0, 0, 0, 0, 0, 0, 0, 0, 0, 0,
     0, 0, 0, 0, 0, 0, 0, 0, 0, 0, 0, 0, 0, 0, 0, 0, 0, 0, 0, 0,
     0, 0, 0, 0, 0, 0, 0, 0, 0, 0, 0, 0, 0, 0, 0, 0, 0, 0, 0, 0,
     0, 0, 0, 0, 0, 0, 0, 0, 0, 0, 0, 0, 0, 0, 0, 0, 0, 0, 0, 0,
     0, 0, 0, 0, 0, 0, 0, 0, 0, 0, 0, 0, 0, 0, 0, 0, 0, 0, 0, 0,
     0, 0, 0, 0, 0, 0, 0, 0, 0, 0, 0, 0, 0, 0, 0, 0, 0, 0, 0, 0,
     0, 0, 0, 0, 0, 0, 0, 0, 0, 0, 0, 0, 0, 0, 0, 0, 0, 0, 0, 0,
     0, 0, 0, 0, 0, 0, 0, 0, 0, 0, 0, 0, 0, 0, 0, 0, 0, 0, 0, 0,
     0, 0, 0, 0, 0, 0, 0, 0, 0, 0, 0, 0, 0, 0, 0, 0, 0, 0, 0, 0,
     0, 0, 0, 0, 0, 0, 0, 0, 0, 0, 0, 0, 0, 0, 0, 0, 0, 0, 0, 0,
     0, 0, 0, 0, 0, 0, 0, 0, 0, 0, 0, 0, 0, 0, 0, 0, 0, 0, 0, 0,
     0, 0, 0, 0, 0, 0, 0, 0, 0, 0, 0, 0, 0, 0, 0, 0, 0, 0, 0, 0,
     0, 0, 0, 0, 0, 0, 0, 0, 0, 0, 0, 0, 0, 0, 0, 0, 0, 0, 0, 0,
     0, 0, 0, 0, 0, 0, 0, 0, 0, 0, 0, 0, 0, 0, 0, 0, 0, 0, 0, 0,
     0, 0, 0, 0, 0, 0, 0, 0, 0, 0, 0, 0, 0, 0, 0, 0, 0, 0, 0, 0,
     0, 0, 0, 0, 0, 0, 0, 0, 0, 0, 0, 0, 0, 0, 0, 0, 0, 0, 0, 0,
     0, 0, 0, 0, 0
  >>,
  \* C
  <<
     18, 18, 18, 19, 19, 19, 19, 19, 19, 19, 20, 20, 20, 20, 21, 21, 22, 22, 23, 24,
     24, 25, 26, 27, 28, 30, 31, 33, 35, 38, 41, 45, 50, 56, 65, 77, 97, 132, 211, 570,
     728, 215, 123, 85, 64, 51, 42, 35, 30, 26, 22, 20, 17, 15, 13, 12, 11, 9, 8, 8,
     7, 7, 7, 7, 8, 9, 10, 12, 14, 17, 21, 27, 36, 51, 82, 186, 985, 143, 79, 55,
     43, 36, 30, 27, 24, 22, 20, 18, 17, 16, 15, 14, 13, 13, 12, 12, 11, 11, 10, 10,
     10, 9, 9, 9, 8, 8, 8, 8, 8, 7, 7, 7, 7, 7, 7, 6, 6, 6, 6, 6,
     6, 6, 6, 5, 5, 5, 5, 5, 5, 5, 5, 5, 5, 5, 5, 4, 4, 4, 4, 4,
     4, 4, 4, 4, 4, 4, 4, 4, 4, 4, 4, 4, 4, 4, 3, 3, 3, 3, 3, 3,
     3, 3, 3, 3, 3, 3, 3, 3, 3, 3, 3, 3, 3, 3, 3, 3, 3, 3, 3, 3,
     3, 3, 3, 3, 3, 3, 3, 3, 3, 2, 2, 2, 2, 2, 2, 2, 2, 2, 2, 2,
     2, 2, 2, 2, 2, 2, 2, 2, 2, 2, 2, 2, 2, 2, 2, 2, 2, 2, 2, 2,
     2, 2, 2, 2, 2, 2, 2, 2, 2, 2, 2, 2, 2, 2, 2, 2, 2, 2, 2, 2,
     2, 2, 2, 2, 2, 2, 2, 2, 2, 2, 2, 2, 2, 2, 2, 2, 2, 2, 2, 2,
     2, 2, 2, 2, 2, 2, 2, 2, 2, 2, 2, 2, 2, 2, 2, 2, 1, 1, 1, 1,
     1, 1, 1, 1, 1, 1, 1, 1, 1, 1, 1, 1, 1, 1, 1, 1, 1, 1, 1, 1,
     1, 1, 1, 1, 1, 1, 1, 1, 1, 1, 1, 1, 1, 1, 1, 1, 1, 1, 1, 1,
     1, 1, 1, 1, 1, 1, 1, 1, 1, 1, 1, 1, 1, 1, 1, 1, 1, 1, 1, 1,
     1, 1, 1, 1, 1, 1, 1, 1, 1, 1, 1, 1, 1, 1, 1, 1, 1, 1, 1, 1,
     1, 1, 1, 1, 1, 1, 1, 1, 1, 1, 1, 1, 1, 1, 1, 1, 1, 1, 1, 1,
     1, 1, 1, 1, 1, 1, 1, 1, 1, 1, 1, 1, 1, 1, 1, 1, 1, 1, 1, 1,
     1, 1, 1, 1, 1, 1, 1, 1, 1, 1, 1, 1, 1, 1, 1, 1, 1, 1, 1, 1,
     1, 1, 1, 1, 1, 1, 1, 1, 1, 1, 1, 1, 1, 1, 1, 1, 1, 1, 1, 1,
     1, 1, 1, 1, 1, 1, 1, 1, 1, 1, 1, 1, 1, 1, 1, 1, 1, 1, 1, 1,
     1, 1, 1, 1, 1, 1, 1, 1, 1, 1, 1, 1, 1, 1, 1, 1, 1, 1, 1, 1,
     1, 1, 1, 1, 1, 1, 1, 1, 1, 1, 1, 1, 1, 1, 1, 1, 1, 1, 1, 1,
     1, 1, 1, 1, 1, 1, 1, 1, 1, 1, 1, 1, 1, 1, 1, 1, 1, 1, 1, 1,
     1, 1, 1, 1, 1, 1, 1, 1, 1, 1, 1, 1, 1, 1, 1, 1, 1, 1, 1, 1,
     1, 1, 1, 1, 1, 1, 1, 1, 1, 1, 1, 1, 1, 1, 1, 1, 1, 1, 1, 1,
     1, 1, 1, 1, 1, 1, 1, 1, 1, 1, 1, 1, 1, 1, 1, 1, 1, 1, 1, 1,
     1, 1, 1, 1, 1, 1, 1, 1, 1, 1, 1, 1, 1, 1, 1, 1, 1, 1, 1, 1,
     1, 1, 1, 1, 1, 1, 1, 1, 1, 1, 1, 1, 1, 1, 1, 1, 1, 1, 1, 1,
     1, 1, 1, 1, 1, 1, 1, 1, 1, 1, 1, 1, 1, 1, 1, 1, 1, 1, 1, 1,
     1, 1, 1, 1, 1, 1, 1, 1, 1, 1, 1, 1, 1, 1, 1, 1, 1, 1, 1, 1,
     1, 1, 1, 1, 1, 1, 1, 1, 1, 1, 1, 1, 1, 1, 1, 1, 1, 1, 1, 1,
     1, 1, 1, 1, 1, 1, 1, 1, 1, 1, 1, 1, 1, 1, 1, 1, 1, 1, 1, 1,
     1, 1, 1, 1, 1, 1, 1, 1, 1, 1, 1, 1, 1, 1, 1, 1, 1, 1, 1, 1,
     1, 1, 1, 1, 1, 1, 1, 1, 1, 1, 1, 1, 1, 1, 1, 1, 1, 1, 1, 1,
     1, 1, 1, 1, 1, 1, 1, 1, 1, 1, 1, 1, 1, 1, 1, 1, 1, 1, 1, 1,
     1, 1, 1, 1, 1, 1, 1, 1, 1, 1, 1, 1, 1, 1, 1, 1, 1, 1, 1, 1,
     1, 1, 1, 1, 1, 1, 1, 1, 1, 1, 1, 1, 1, 1, 1, 1, 1, 1, 1, 1,
     1, 1, 1, 1, 1, 1, 1, 1, 1, 1, 1, 1, 1, 1, 1, 1, 1, 1, 1, 1,
     1, 1, 1, 1, 1, 1, 1, 1, 1, 1, 1, 1, 1, 1, 1, 1, 1, 1, 1, 1,
     1, 1, 1, 1, 1, 1, 1, 1, 1, 1, 1, 1, 1, 1, 1, 1, 1, 1, 1, 1,
     1, 1, 1, 1, 1, 1, 1, 1, 1, 1, 1, 1, 1, 1, 1, 1, 1, 1, 1, 1,
     1, 1, 1, 1, 1, 1, 1, 1, 1, 1, 1, 1, 1, 1, 1, 1, 1, 1, 1, 1,
     1, 1, 1, 1, 1, 1, 1, 1, 1, 1, 1, 1, 1, 1, 1, 1, 1, 1, 1, 1,
     1, 1, 1, 1, 1, 1, 1, 1, 1, 1, 1, 1, 1, 1, 1, 1, 1, 1, 1, 1,
     1, 1, 1, 1, 1, 1, 1, 1, 1, 1, 1, 1, 1, 1, 1, 1, 1, 1, 1, 1,
     1, 1, 1, 1, 1, 1, 1, 1, 1, 1, 1, 1, 1, 1, 1, 1, 1, 1, 1, 1,
     1, 1, 1, 1, 1, 1, 1, 1, 1, 1, 1, 1, 1, 1, 1, 1, 1, 1, 1, 1,
     1, 1, 1, 1, 1, 1, 1, 1, 1, 1, 1, 1, 1, 1, 1, 1, 1, 1, 1, 1,
     1, 1, 1, 1, 1
  >>,
  \* *
  <<
     12, 12, 12, 12, 12, 12, 12, 12, 12, 13, 13, 13, 13, 13, 13, 14, 14, 14, 14, 15,
     15, 16, 16, 17, 17, 18, 18, 19, 20, 21, 22, 24, 26, 28, 30, 33, 37, 42, 48, 58,
     73, 99, 156, 377, 879, 203, 116, 82, 65, 56, 50, 49, 51, 58, 77, 133, 994, 165, 75, 48,
     36, 29, 24, 21, 18, 16, 15, 13, 12, 12, 11, 10, 9, 9, 8, 8, 8, 7, 7, 7,
     6, 6, 6, 6, 5, 5, 5, 5, 5, 5, 4, 4, 4, 4, 4, 4, 4, 4, 3, 3,
     3, 3, 3, 3, 3, 3, 3, 3, 3, 3, 3, 3, 2, 2, 2, 2, 2, 2, 2, 2,
     2, 2, 2, 2, 2, 2, 2, 2, 2, 2, 2, 2, 2, 2, 2, 2, 2, 2, 2, 1,
     1, 1, 1, 1, 1, 1, 1, 1, 1, 1, 1, 1, 1, 1, 1, 1, 1, 1, 1, 1,
     1, 1, 1, 1, 1, 1, 1, 1, 1, 1, 1, 1, 1, 1, 1, 1, 1, 1, 1, 1,
     1, 1, 1, 1, 1, 1, 1, 1, 1, 1, 1, 1, 1, 1, 1, 1, 1, 1, 1, 1,
     1, 1, 1, 1, 1, 1, 1, 1, 1, 1, 1, 1, 1, 1, 1, 1, 1, 1, 1, 1,
     1, 1, 1, 1, 1, 1, 1, 1, 1, 0, 0, 0, 0, 0, 0, 0, 0, 0, 0, 0,
     0, 0, 0, 0, 0, 0, 0, 0, 0, 0, 0, 0, 0, 0, 0, 0, 0, 0, 0, 0,
     0, 0, 0, 0, 0, 0, 0, 0, 0, 0, 0, 0, 0, 0, 0, 0, 0, 0, 0, 0,
     0, 0, 0, 0, 0, 0, 0, 0, 0, 0, 0, 0, 0, 0, 0, 0, 0, 0, 0, 0,
     0, 0, 0, 0, 0, 0, 0, 0, 0, 0, 0, 0, 0, 0, 0, 0, 0, 0, 0, 0,
     0, 0, 0, 0, 0, 0, 0, 0, 0, 0, 0, 0, 0, 0, 0, 0, 0, 0, 0, 0,
     0, 0, 0, 0, 0, 0, 0, 0, 0, 0, 0, 0, 0, 0, 0, 0, 0, 0, 0, 0,
     0, 0, 0, 0, 0, 0, 0, 0, 0, 0, 0, 0, 0, 0, 0, 0, 0, 0, 0, 0,
     0, 0, 0, 0, 0, 0, 0, 0, 0, 0, 0, 0, 0, 0, 0, 0, 0, 0, 0, 0,
     0, 0, 0, 0, 0, 0, 0, 0, 0, 0, 0, 0, 0, 0, 0, 0, 0, 0, 0, 0,
     0, 0, 0, 0, 0, 0, 0, 0, 0, 0, 0, 0, 0, 0, 0, 0, 0, 0, 0, 0,
     0, 0, 0, 0, 0, 0, 0, 0, 0, 0, 0, 0, 0, 0, 0, 0, 0, 0, 0, 0,
     0, 0, 0, 0, 0, 0, 0, 0, 0, 0, 0, 0, 0, 0, 0, 0, 0, 0, 0, 0,
     0, 0, 0, 0, 0, 0, 0, 0, 0, 0, 0, 0, 0, 0, 0, 0, 0, 0, 0, 0,
     0, 0, 0, 0, 0, 0, 0, 0, 0, 0, 0, 0, 0, 0, 0, 0, 0, 0, 0, 0,
     0, 0, 0, 0, 0, 0, 0, 0, 0, 0, 0, 0, 0, 0, 0, 0, 0, 0, 0, 0,
     0, 0, 0, 0, 0, 0, 0, 0, 0, 0, 0, 0, 0, 0, 0, 0, 0, 0, 0, 0,
     0, 0, 0, 0, 0, 0, 0, 0, 0, 0, 0, 0, 0, 0, 0, 0, 0, 0, 0, 0,
     0, 0, 0, 0, 0, 0, 0, 0, 0, 0, 0, 0, 0, 0, 0, 0, 0, 0, 0, 0,
     0, 0, 0, 0, 0, 0, 0, 0, 0, 0, 0, 0, 0, 0, 0, 0, 0, 0, 0, 0,
     0, 0, 0, 0, 0, 0, 0, 0, 0, 0, 0, 0, 0, 0, 0, 0, 0, 0, 0, 0,
     0, 0, 0, 0, 0, 0, 0, 0, 0, 0, 0, 0, 0, 0, 0, 0, 0, 0, 0, 0,
     0, 0, 0, 0, 0, 0, 0, 0, 0, 0, 0, 0, 0, 0, 0, 0, 0, 0, 0, 0,
     0, 0, 0, 0, 0, 0, 0, 0, 0, 0, 0, 0, 0, 0, 0, 0, 0, 0, 0, 0,
     0, 0, 0, 0, 0, 0, 0, 0, 0, 0, 0, 0, 0, 0, 0, 0, 0, 0, 0, 0,
     0, 0, 0, 0, 0, 0, 0, 0, 0, 0, 0, 0, 0, 0, 0, 0, 0, 0, 0, 0,
     0, 0, 0, 0, 0, 0, 0, 0, 0, 0, 0, 0, 0, 0, 0, 0, 0, 0, 0, 0,
     0, 0, 0, 0, 0, 0, 0, 0, 0, 0, 0, 0, 0, 0, 0, 0, 0, 0, 0, 0,
     0, 0, 0, 0, 0, 0, 0, 0, 0, 0, 0, 0, 0, 0, 0, 0, 0, 0, 0, 0,
     0, 0, 0, 0, 0, 0, 0, 0, 0, 0, 0, 0, 0, 0, 0, 0, 0, 0, 0, 0,
     0, 0, 0, 0, 0, 0, 0, 0, 0, 0, 0, 0, 0, 0, 0, 0, 0, 0, 0, 0,
     0, 0, 0, 0, 0, 0, 0, 0, 0, 0, 0, 0, 0, 0, 0, 0, 0, 0, 0, 0,
     0, 0, 0, 0, 0, 0, 0, 0, 0, 0, 0, 0, 0, 0, 0, 0, 0, 0, 0, 0,
     0, 0, 0, 0, 0, 0, 0, 0, 0, 0, 0, 0, 0, 0, 0, 0, 0, 0, 0, 0,
     0, 0, 0, 0, 0, 0, 0, 0, 0, 0, 0, 0, 0, 0, 0, 0, 0, 0, 0, 0,
     0, 0, 0, 0, 0, 0, 0, 0, 0, 0, 0, 0, 0, 0, 0, 0, 0, 0, 0, 0,
     0, 0, 0, 0, 0, 0, 0, 0, 0, 0, 0, 0, 0, 0, 0, 0, 0, 0, 0, 0,
     0, 0, 0, 0, 0, 0, 0, 0, 0, 0, 0, 0, 0, 0, 0, 0, 0, 0, 0, 0,
     0, 0, 0, 0, 0, 0, 0, 0, 0, 0, 0, 0, 0, 0, 0, 0, 0, 0, 0, 0,
     0, 0, 0, 0, 0, 0, 0, 0, 0, 0, 0, 0, 0, 0, 0, 0, 0, 0, 0, 0,
     0, 0, 0, 0, 0
  >>,
  \* 0
  <<
     10, 10, 10, 10, 10, 10, 11, 11, 11, 11, 11, 11, 11, 11, 12, 12, 12, 12, 13, 13,
     13, 14, 14, 15, 15, 16, 17, 18, 18, 20, 21, 22, 24, 26, 28, 31, 35, 40, 47, 57,
     72, 98, 156, 377, 879, 203, 115, 80, 62, 50, 43, 37, 33, 30, 28, 26, 25, 25, 25, 27,
     33, 53, 1029, 40, 18, 12, 9, 8, 8, 7, 7, 7, 6, 6, 6, 6, 6, 5, 5, 5,
     5, 5, 5, 5, 4, 4, 4, 4, 4, 4, 4, 4, 4, 4, 4, 3, 3, 3, 3, 3,
     3, 3, 3, 3, 3, 3, 3, 3, 3, 3, 3, 3, 3, 3, 3, 2, 2, 2, 2, 2,
     2, 2, 2, 2, 2, 2, 2, 2, 2, 2, 2, 2, 2, 2, 2, 2, 2, 2, 2, 2,
     2, 2, 2, 2, 2, 2, 2, 2, 2, 2, 2, 2, 2, 2, 2, 2, 2, 2, 2, 2,
     2, 1, 1, 1, 1, 1, 1, 1, 1, 1, 1, 1, 1, 1, 1, 1, 1, 1, 1, 1,
     1, 1, 1, 1, 1, 1, 1, 1, 1, 1, 1, 1, 1, 1, 1, 1, 1, 1, 1, 1,
     1, 1, 1, 1, 1, 1, 1, 1, 1, 1, 1, 1, 1, 1, 1, 1, 1, 1, 1, 1,
     1, 1, 1, 1, 1, 1, 1, 1, 1, 1, 1, 1, 1, 1, 1, 1, 1, 1, 1, 1,
     1, 1, 1, 1, 1, 1, 1, 1, 1, 1, 1, 1, 1, 1, 1, 1, 1, 1, 1, 1,
     1, 1, 1, 1, 1, 1, 1, 1, 1, 1, 1, 1, 1, 1, 1, 1, 1, 1, 1, 1,
     1, 1, 1, 1, 1, 1, 1, 1, 1, 1, 1, 1, 1, 1, 1, 1, 1, 1, 1, 1,
     1, 1, 1, 1, 1, 1, 1, 1, 1, 1, 1, 1, 1, 1, 1, 1, 1, 1, 1, 1,
     1, 1, 1, 1, 1, 1, 1, 1, 1, 1, 1, 1, 1, 1, 1, 1, 1, 1, 1, 1,
     1, 1, 1, 1, 1, 1, 1, 1, 1, 1, 1, 1, 1, 1, 1, 1, 1, 1, 1, 1,
     1, 1, 1, 1, 1, 1, 1, 1, 1, 1, 1, 1, 1, 1, 1, 1, 1, 1, 1, 1,
     1, 1, 1, 1, 1, 1, 1, 1, 1, 1, 1, 1, 1, 1, 1, 1, 1, 1, 1, 1,
     1, 1, 1, 1, 1, 1, 1, 1, 1, 1, 1, 1, 1, 1, 1, 1, 1, 1, 1, 1,
     1, 1, 1, 0, 0, 0, 0, 0, 0, 0, 0, 0, 0, 0, 0, 0, 0, 0, 0, 0,
     0, 0, 0, 0, 0, 0, 0, 0, 0, 0, 0, 0, 0, 0, 0, 0, 0, 0, 0, 0,
     0, 0, 0, 0, 0, 0, 0, 0, 0, 0, 0, 0, 0, 0, 0, 0, 0, 0, 0, 0,
     0, 0, 0, 0, 0, 0, 0, 0, 0, 0, 0, 0, 0, 0, 0, 0, 0, 0, 0, 0,
     0, 0, 0, 0, 0, 0, 0, 0, 0, 0, 0, 0, 0, 0, 0, 0, 0, 0, 0, 0,
     0, 0, 0, 0, 0, 0, 0, 0, 0, 0, 0, 0, 0, 0, 0, 0, 0, 0, 0, 0,
     0, 0, 0, 0, 0, 0, 0, 0, 0, 0, 0, 0, 0, 0, 0, 0, 0, 0, 0, 0,
     0, 0, 0, 0, 0, 0, 0, 0, 0, 0, 0, 0, 0, 0, 0, 0, 0, 0, 0, 0,
     0, 0, 0, 0, 0, 0, 0, 0, 0, 0, 0, 0, 0, 0, 0, 0, 0, 0, 0, 0,
     0, 0, 0, 0, 0, 0, 0, 0, 0, 0, 0, 0, 0, 0, 0, 0, 0, 0, 0, 0,
     0, 0, 0, 0, 0, 0, 0, 0, 0, 0, 0, 0, 0, 0, 0, 0, 0, 0, 0, 0,
     0, 0, 0, 0, 0, 0, 0, 0, 0, 0, 0, 0, 0, 0, 0, 0, 0, 0, 0, 0,
     0, 0, 0, 0, 0, 0, 0, 0, 0, 0, 0, 0, 0, 0, 0, 0, 0, 0, 0, 0,
     0, 0, 0, 0, 0, 0, 0, 0, 0, 0, 0, 0, 0, 0, 0, 0, 0, 0, 0, 0,
     0, 0, 0, 0, 0, 0, 0, 0, 0, 0, 0, 0, 0, 0, 0, 0, 0, 0, 0, 0,
     0, 0, 0, 0, 0, 0, 0, 0, 0, 0, 0, 0, 0, 0, 0, 0, 0, 0, 0, 0,
     0, 0, 0, 0, 0, 0, 0, 0, 0, 0, 0, 0, 0, 0, 0, 0, 0, 0, 0, 0,
     0, 0, 0, 0, 0, 0, 0, 0, 0, 0, 0, 0, 0, 0, 0, 0, 0, 0, 0, 0,
     0, 0, 0, 0, 0, 0, 0, 0, 0, 0, 0, 0, 0, 0, 0, 0, 0, 0, 0, 0,
     0, 0, 0, 0, 0, 0, 0, 0, 0, 0, 0, 0, 0, 0, 0, 0, 0, 0, 0, 0,
     0, 0, 0, 0, 0, 0, 0, 0, 0, 0, 0, 0, 0, 0, 0, 0, 0, 0, 0, 0,
     0, 0, 0, 0, 0, 0, 0, 0, 0, 0, 0, 0, 0, 0, 0, 0, 0, 0, 0, 0,
     0, 0, 0, 0, 0, 0, 0, 0, 0, 0, 0, 0, 0, 0, 0, 0, 0, 0, 0, 0,
     0, 0, 0, 0, 0, 0, 0, 0, 0, 0, 0, 0, 0, 0, 0, 0, 0, 0, 0, 0,
     0, 0, 0, 0, 0, 0, 0, 0, 0, 0, 0, 0, 0, 0, 0, 0, 0, 0, 0, 0,
     0, 0, 0, 0, 0, 0, 0, 0, 0, 0, 0, 0, 0, 0, 0, 0, 0, 0, 0, 0,
     0, 0, 0, 0, 0, 0, 0, 0, 0, 0, 0, 0, 0, 0, 0, 0, 0, 0, 0, 0,
     0, 0, 0, 0, 0, 0, 0, 0, 0, 0, 0, 0, 0, 0, 0, 0, 0, 0, 0, 0,
     0, 0, 0, 0, 0, 0, 0, 0, 0, 0, 0, 0, 0, 0, 0, 0, 0, 0, 0, 0,
     0, 0, 0, 0, 0, 0, 0, 0, 0, 0, 0, 0, 0, 0, 0, 0, 0, 0, 0, 0,
     0, 0, 0, 0, 0
  >>,
  \* #
  <<
     19, 19, 19, 19, 19, 19, 19, 20, 20, 20, 20, 20, 20, 21, 21, 21, 22, 22, 22, 23,
     23, 24, 24, 25, 26, 26, 27, 28, 29, 30, 32, 33, 35, 38, 40, 43, 48, 53, 60, 70,
     85, 112, 170, 392, 864, 187, 99, 64, 45, 33, 25, 20, 16, 13, 12, 13, 14, 16, 19, 23,
     27, 32, 39, 48, 60, 80, 114, 190, 522, 771, 227, 135, 97, 76, 62, 53, 46, 41, 37, 34,
     31, 29, 27, 25, 23, 22, 21, 20, 19, 18, 17, 16, 16, 15, 14, 14, 13, 13, 13, 12,
     12, 11, 11, 11, 10, 10, 10, 10, 9, 9, 9, 9, 9, 8, 8, 8, 8, 8, 7, 7,
     7, 7, 7, 7, 7, 7, 6, 6, 6, 6, 6, 6, 6, 6, 6, 6, 5, 5, 5, 5,
     5, 5, 5, 5, 5, 5, 5, 5, 5, 5, 4, 4, 4, 4, 4, 4, 4, 4, 4, 4,
     4, 4, 4, 4, 4, 4, 4, 4, 4, 4, 4, 4, 3, 3, 3, 3, 3, 3, 3, 3,
     3, 3, 3, 3, 3, 3, 3, 3, 3, 3, 3, 3, 3, 3, 3, 3, 3, 3, 3, 3,
     3, 3, 3, 3, 3, 3, 3, 3, 3, 3, 3, 3, 2, 2, 2, 2, 2, 2, 2, 2,
     2, 2, 2, 2, 2, 2, 2, 2, 2, 2, 2, 2, 2, 2, 2, 2, 2, 2, 2, 2,
     2, 2, 2, 2, 2, 2, 2, 2, 2, 2, 2, 2, 2, 2, 2, 2, 2, 2, 2, 2,
     2, 2, 2, 2, 2, 2, 2, 2, 2, 2, 2, 2, 2, 2, 2, 2, 2, 2, 2, 2,
     2, 2, 2, 2, 2, 2, 2, 2, 2, 2, 2, 2, 2, 2, 2, 2, 2, 2, 2, 2,
     2, 2, 2, 2, 2, 2, 2, 2, 2, 2, 2, 1, 1, 1, 1, 1, 1, 1, 1, 1,
     1, 1, 1, 1, 1, 1, 1, 1, 1, 1, 1, 1, 1, 1, 1, 1, 1, 1, 1, 1,
     1, 1, 1, 1, 1, 1, 1, 1, 1, 1, 1, 1, 1, 1, 1, 1, 1, 1, 1, 1,
     1, 1, 1, 1, 1, 1, 1, 1, 1, 1, 1, 1, 1, 1, 1, 1, 1, 1, 1, 1,
     1, 1, 1, 1, 1, 1, 1, 1, 1, 1, 1, 1, 1, 1, 1, 1, 1, 1, 1, 1,
     1, 1, 1, 1, 1, 1, 1, 1, 1, 1, 1, 1, 1, 1, 1, 1, 1, 1, 1, 1,
     1, 1, 1, 1, 1, 1, 1, 1, 1, 1, 1, 1, 1, 1, 1, 1, 1, 1, 1, 1,
     1, 1, 1, 1, 1, 1, 1, 1, 1, 1, 1, 1, 1, 1, 1, 1, 1, 1, 1, 1,
     1, 1, 1, 1, 1, 1, 1, 1, 1, 1, 1, 1, 1, 1, 1, 1, 1, 1, 1, 1,
     1, 1, 1, 1, 1, 1, 1, 1, 1, 1, 1, 1, 1, 1, 1, 1, 1, 1, 1, 1,
     1, 1, 1, 1, 1, 1, 1, 1, 1, 1, 1, 1, 1, 1, 1, 1, 1, 1, 1, 1,
     1, 1, 1, 1, 1, 1, 1, 1, 1, 1, 1, 1, 1, 1, 1, 1, 1, 1, 1, 1,
     1, 1, 1, 1, 1, 1, 1, 1, 1, 1, 1, 1, 1, 1, 1, 1, 1, 1, 1, 1,
     1, 1, 1, 1, 1, 1, 1, 1, 1, 1, 1, 1, 1, 1, 1, 1, 1, 1, 1, 1,
     1, 1, 1, 1, 1, 1, 1, 1, 1, 1, 1, 1, 1, 1, 1, 1, 1, 1, 1, 1,
     1, 1, 1, 1, 1, 1, 1, 1, 1, 1, 1, 1, 1, 1, 1, 1, 1, 1, 1, 1,
     1, 1, 1, 1, 1, 1, 1, 1, 1, 1, 1, 1, 1, 1, 1, 1, 1, 1, 1, 1,
     1, 1, 1, 1, 1, 1, 1, 1, 1, 1, 1, 1, 1, 1, 1, 1, 1, 1, 1, 1,
     1, 1, 1, 1, 1, 1, 1, 1, 1, 1, 1, 1, 1, 1, 1, 1, 1, 1, 1, 1,
     1, 1, 1, 1, 1, 1, 1, 1, 1, 1, 1, 1, 1, 1, 1, 1, 1, 1, 1, 1,
     1, 1, 1, 1, 1, 1, 1, 1, 1, 1, 1, 1, 1, 1, 1, 1, 1, 1, 1, 1,
     1, 1, 1, 1, 1, 1, 1, 1, 1, 1, 1, 1, 1, 1, 1, 1, 1, 1, 1, 1,
     1, 1, 1, 1, 1, 1, 1, 1, 1, 1, 1, 1, 1, 1, 1, 1, 1, 1, 1, 1,
     1, 1, 1, 1, 1, 1, 1, 1, 1, 1, 1, 1, 1, 1, 1, 1, 1, 1, 1, 1,
     1, 1, 1, 1, 1, 1, 1, 1, 1, 1, 1, 1, 1, 1, 1, 1, 1, 1, 1, 1,
     1, 1, 1, 1, 1, 1, 1, 1, 1, 1, 1, 1, 1, 1, 1, 1, 1, 1, 1, 1,
     1, 1, 1, 1, 1, 1, 1, 1, 1, 1, 1, 1, 1, 1, 1, 1, 1, 1, 1, 1,
     1, 1, 1, 1, 1, 1, 1, 1, 1, 1, 1, 1, 1, 1, 1, 1, 1, 1, 1, 1,
     1, 1, 1, 1, 1, 1, 1, 1, 1, 1, 1, 1, 1, 1, 1, 1, 1, 1, 1, 1,
     1, 1, 1, 1, 1, 1, 1, 1, 1, 1, 1, 1, 1, 1, 1, 1, 1, 1, 1, 1,
     1, 1, 1, 1, 1, 1, 1, 1, 1, 1, 1, 1, 1, 1, 1, 1, 1, 1, 1, 1,
     1, 1, 1, 1, 1, 1, 1, 1, 1, 1, 1, 1, 1, 1, 1, 1, 1, 1, 1, 1,
     1, 1, 1, 1, 1, 1, 1, 1, 1, 1, 1, 1, 1, 1, 1, 1, 1, 1, 1, 1,
     1, 1, 1, 1, 1, 1, 1, 1, 1, 1, 1, 1, 1, 1, 1, 1, 1, 1, 1, 1,
     1, 1, 1, 1, 1, 1, 1, 1, 1, 1, 1, 1, 1, 1, 1, 1, 1, 1, 1, 1,
     1, 1, 1, 1, 1, 1, 1, 1, 1, 1, 1, 1, 1, 1, 1, 1, 1, 1, 1, 1,
     1, 1, 1, 1, 1
  >>,
  \* D
  <<
     13, 13, 13, 13, 13, 13, 13, 13, 13, 13, 13, 14, 14, 14, 14, 15, 15, 15, 15, 16,
     16, 17, 17, 18, 19, 19, 20, 21, 22, 23, 24, 26, 28, 30, 32, 36, 40, 45, 52, 62,
     77, 103, 161, 383, 873, 197, 108, 73, 55, 43, 35, 29, 24, 21, 18, 15, 13, 11, 9, 7,
     6, 4, 3, 2, 2, 3, 5, 7, 10, 14, 18, 24, 33, 48, 79, 184, 987, 145, 81, 58,
     45, 38, 33, 29, 26, 24, 22, 20, 19, 18, 17, 16, 15, 14, 14, 13, 13, 12, 12, 12,
     11, 11, 11, 10, 10, 10, 9, 9, 9, 9, 9, 8, 8, 8, 8, 8, 8, 7, 7, 7,
     7, 7, 7, 7, 7, 7, 6, 6, 6, 6, 6, 6, 6, 6, 6, 6, 6, 6, 5, 5,
     5, 5, 5, 5, 5, 5, 5, 5, 5, 5, 5, 5, 5, 5, 5, 5, 4, 4, 4, 4,
     4, 4, 4, 4, 4, 4, 4, 4, 4, 4, 4, 4, 4, 4, 4, 4, 4, 4, 4, 4,
     4, 4, 4, 4, 4, 4, 3, 3, 3, 3, 3, 3, 3, 3, 3, 3, 3, 3, 3, 3,
     3, 3, 3, 3, 3, 3, 3, 3, 3, 3, 3, 3, 3, 3, 3, 3, 3, 3, 3, 3,
     3, 3, 3, 3, 3, 3, 3, 3, 3, 3, 3, 3, 3, 3, 3, 3, 3, 3, 3, 3,
     3, 3, 3, 2, 2, 2, 2, 2, 2, 2, 2, 2, 2, 2, 2, 2, 2, 2, 2, 2,
     2, 2, 2, 2, 2, 2, 2, 2, 2, 2, 2, 2, 2, 2, 2, 2, 2, 2, 2, 2,
     2, 2, 2, 2, 2, 2, 2, 2, 2, 2, 2, 2, 2, 2, 2, 2, 2, 2, 2, 2,
     2, 2, 2, 2, 2, 2, 2, 2, 2, 2, 2, 2, 2, 2, 2, 2, 2, 2, 2, 2,
     2, 2, 2, 2, 2, 2, 2, 2, 2, 2, 2, 2, 2, 2, 2, 2, 2, 2, 2, 2,
     2, 2, 2, 2, 2, 2, 2, 2, 2, 2, 2, 2, 2, 2, 2, 2, 2, 2, 2, 2,
     2, 2, 2, 2, 2, 2, 2, 2, 2, 2, 2, 2, 2, 2, 2, 2, 2, 2, 2, 2,
     2, 2, 2, 2, 2, 2, 2, 2, 2, 2, 2, 2, 2, 2, 2, 2, 1, 1, 1, 1,
     1, 1, 1, 1, 1, 1, 1, 1, 1, 1, 1, 1, 1, 1, 1, 1, 1, 1, 1, 1,
     1, 1, 1, 1, 1, 1, 1, 1, 1, 1, 1, 1, 1, 1, 1, 1, 1, 1, 1, 1,
     1, 1, 1, 1, 1, 1, 1, 1, 1, 1, 1, 1, 1, 1, 1, 1, 1, 1, 1, 1,
     1, 1, 1, 1, 1, 1, 1, 1, 1, 1, 1, 1, 1, 1, 1, 1, 1, 1, 1, 1,
     1, 1, 1, 1, 1, 1, 1, 1, 1, 1, 1, 1, 1, 1, 1, 1, 1, 1, 1, 1,
     1, 1, 1, 1, 1, 1, 1, 1, 1, 1, 1, 1, 1, 1, 1, 1, 1, 1, 1, 1,
     1, 1, 1, 1, 1, 1, 1, 1, 1, 1, 1, 1, 1, 1, 1, 1, 1, 1, 1, 1,
     1, 1, 1, 1, 1, 1, 1, 1, 1, 1, 1, 1, 1, 1, 1, 1, 1, 1, 1, 1,
     1, 1, 1, 1, 1, 1, 1, 1, 1, 1, 1, 1, 1, 1, 1, 1, 1, 1, 1, 1,
     1, 1, 1, 1, 1, 1, 1, 1, 1, 1, 1, 1, 1, 1, 1, 1, 1, 1, 1, 1,
     1, 1, 1, 1, 1, 1, 1, 1, 1, 1, 1, 1, 1, 1, 1, 1, 1, 1, 1, 1,
     1, 1, 1, 1, 1, 1, 1, 1, 1, 1, 1, 1, 1, 1, 1, 1, 1, 1, 1, 1,
     1, 1, 1, 1, 1, 1, 1, 1, 1, 1, 1, 1, 1, 1, 1, 1, 1, 1, 1, 1,
     1, 1, 1, 1, 1, 1, 1, 1, 1, 1, 1, 1, 1, 1, 1, 1, 1, 1, 1, 1,
     1, 1, 1, 1, 1, 1, 1, 1, 1, 1, 1, 1, 1, 1, 1, 1, 1, 1, 1, 1,
     1, 1, 1, 1, 1, 1, 1, 1, 1, 1, 1, 1, 1, 1, 1, 1, 1, 1, 1, 1,
     1, 1, 1, 1, 1, 1, 1, 1, 1, 1, 1, 1, 1, 1, 1, 1, 1, 1, 1, 1,
     1, 1, 1, 1, 1, 1, 1, 1, 1, 1, 1, 1, 1, 1, 1, 1, 1, 1, 1, 1,
     1, 1, 1, 1, 1, 1, 1, 1, 1, 1, 1, 1, 1, 1, 1, 1, 1, 1, 1, 1,
     1, 1, 1, 1, 1, 1, 1, 1, 1, 1, 1, 1, 1, 1, 1, 1, 1, 1, 1, 1,
     1, 1, 1, 1, 1, 1, 1, 1, 1, 1, 1, 1, 1, 1, 1, 1, 1, 1, 1, 1,
     1, 1, 1, 1, 1, 1, 1, 1, 1, 1, 1, 1, 1, 1, 1, 1, 1, 1, 1, 1,
     1, 1, 1, 1, 1, 1, 1, 1, 1, 1, 1, 1, 1, 1, 1, 1, 1, 1, 1, 1,
     1, 1, 1, 1, 1, 1, 1, 1, 1, 1, 1, 1, 1, 1, 1, 1, 1, 1, 1, 1,
     1, 1, 1, 1, 1, 1, 1, 1, 1, 1, 1, 1, 1, 1, 1, 1, 1, 1, 1, 1,
     1, 1, 1, 1, 1, 1, 1, 1, 1, 1, 1, 1, 1, 1, 1, 1, 1, 1, 1, 1,
     1, 1, 1, 1, 1, 1, 1, 1, 1, 1, 1, 1, 1, 1, 1, 1, 1, 1, 1, 1,
     1, 1, 1, 1, 1, 1, 1, 1, 1, 1, 1, 1, 1, 1, 1, 1, 1, 1, 1, 1,
     1, 1, 1, 1, 1, 1, 1, 1, 1, 1, 1, 1, 1, 1, 1, 1, 1, 1, 1, 1,
     1, 1, 1, 1, 1, 1, 1, 1, 1, 1, 1, 1, 1, 1, 1, 1, 1, 1, 1, 1,
     1, 1, 1, 1, 1, 1, 1, 1, 1, 1, 1, 1, 1, 1, 1, 1, 1, 1, 1, 1,
     1, 1, 1, 1, 1
  >>
  >>

(***************************************************************************)
(* Frames.                                                                 *)
(***************************************************************************)
\* a frame of no samples
EmptyFrame == [len |-> 0, mag |-> << >>]

\* np.zeros((n, 1)), np.zeros_like(indata): the spectrum of silence is zero
ZeroFrame(n) == [len |-> n, mag |-> [p \in 1..(n \div 2 + 1) |-> 0]]

\* the two summed sinusoids of dtmf_freqs[i], one block of buffer_size samples
SineFrame(i) == [len |-> buffer_size, mag |-> SineSpectra[i]]

\* the same frame at 1/den of the amplitude (the transform is linear)
ScaledFrame(frame, den) ==
  [len |-> frame.len, mag |-> [p \in DOMAIN frame.mag |-> frame.mag[p] \div den]]

\* spectra of a frame of 245 samples (bins 180 Hz apart: 540, 720, 900, ...,
\* 1620, 1800 Hz are bins 3..10) that are zero but at the bins of SpikeBins
SpikeBins == {3, 4, 6, 7, 9, 10}
SpikeMags == {0, 13, 14, 20, 21}
SpikeFrames ==
  LET n == 245
  IN  { [len |-> n,
         mag |-> [p \in 1..(n \div 2 + 1) |->
                    IF (p - 1) \in SpikeBins THEN f[p - 1] ELSE 0]] :
        f \in [SpikeBins -> SpikeMags] }

\* spectra of a frame of 441 samples (bins 100 Hz apart) that are zero but
\* at 400, 600, 1700 and 1900 Hz: the ends of the valid range are bins
BoundaryBins == {4, 6, 17, 19}
BoundaryMags == {0, 13, 14}
BoundaryFrames ==
  LET n == 441
  IN  { [len |-> n,
         mag |-> [p \in 1..(n \div 2 + 1) |->
                    IF (p - 1) \in BoundaryBins THEN f[p - 1] ELSE 0]] :
        f \in [BoundaryBins -> BoundaryMags] }

ZeroFrames == { ZeroFrame(n) : n \in {1, 2, 3, 8, 245, buffer_size} }

SineFrames == { SineFrame(i) : i \in 1..Len(dtmf_freqs) }

\* the inputs of detect_from_data and update_bars taken on their own
TestFrames ==
  {EmptyFrame} \cup ZeroFrames \cup SineFrames \cup SpikeFrames \cup BoundaryFrames

\* the blocks the stream delivers to the audio callback: silence, and the
\* tone of "5" at full and at 1/20 amplitude
PipelineFrames ==
  << ZeroFrame(buffer_size), SineFrame(6), ScaledFrame(SineFrame(6), 20) >>

\* self.setMinimumHeight(200)
MinimumHeight == 200

\* the heights of the visualizer, in a window 400 high
Heights == {MinimumHeight, 300}

(***************************************************************************)
(* AudioVisualizer.update_bars                                             *)
(***************************************************************************)
RECURSIVE Pow(_, _)
Pow(b, e) == IF e = 0 THEN 1 ELSE b * Pow(b, e - 1)

\* levels are integers in units of 1 / LevelScale: exact for MaxUpdates updates
LevelScale == InterpMax * Pow(SmoothingDen, MaxUpdates)

\* faulty variant: linear with no clamp
Interp_Unclamped(max_magnitude, h) ==
  h * max_magnitude * (LevelScale \div InterpMax)

\* np.interp(max_magnitude, (0, 100), (0, h)): linear, clamped at both ends
Interp(max_magnitude, h) ==
  LET clamped == IF max_magnitude > InterpMax THEN InterpMax
                 ELSE IF max_magnitude < 0 THEN 0 ELSE max_magnitude
  IN  h * clamped * (LevelScale \div InterpMax)

\* lines 94-106: target_level
TargetLevel(audio_data, h) ==
  IF audio_data.len = 0 THEN 0
  ELSE LET max_magnitude == MaxMagnitude(magnitudes(audio_data))
       IN  Interp(IF max_magnitude = 0 THEN 1 ELSE max_magnitude, h)

\* line 109: smoothing_factor * target_level + (1 - smoothing_factor) * smoothed_level
Smooth(target_level, level) ==
  (target_level + (SmoothingDen - 1) * level) \div SmoothingDen

\* an empty frame, or a frame of silence: all samples zero, so all bins zero
IsSilent(frame) == \A p \in DOMAIN frame.mag : frame.mag[p] = 0

\* update_bars and detect_from_data applied to the blocks of the stream and to
\* np.zeros((self.visualizer.height(), 1)) of update_visualizer_transition, at
\* height h: evaluated once, in Init
Computed(h) ==
  [blocks |-> [i \in DOMAIN PipelineFrames |->
                 [target_level |-> TargetLevel(PipelineFrames[i], h),
                  silent       |-> IsSilent(PipelineFrames[i]),
                  emits        |-> DetectFromData(PipelineFrames[i])]],
   fade   |-> [target_level |-> TargetLevel(ZeroFrame(h), h),
               silent       |-> IsSilent(ZeroFrame(h))]]

(***************************************************************************)
(* State.                                                                  *)
(***************************************************************************)
VARIABLES
  now,                  \* time.time(), in units of 100 ms
  audio_thread,         \* MainWindow.audio_thread: None or "AudioThread"
  running,              \* AudioThread.running
  worker,               \* AudioThread.run: unstarted, starting, check, sleeping, finished
  wake,                 \* the time the worker's sd.sleep(100) ends
  gui,                  \* the GUI thread: idle, or waiting in AudioThread.stop
  stop_transition,      \* MainWindow.stop_transition
  start_enabled,        \* start_button.isEnabled()
  stop_enabled,         \* stop_button.isEnabled()
  delay,                \* DTMFDetector.delay
  last_detection_time,  \* DTMFDetector.last_detection_time
  detection_queue,      \* DTMFDetector.detection_queue: frames by arrival number
  enqueued,             \* history: the frames passed to detect_dtmf
  analysed,             \* history: the frames passed to detect_from_data, with the time
  emitted,              \* history: DTMFDetector.dtmf_detected emissions
  pending,              \* emissions queued for AudioThread.handle_dtmf_detected
  relayed,              \* history: AudioThread.dtmf_detected emissions
  smoothed_level,       \* AudioVisualizer.smoothed_level, in units of 1 / LevelScale
  height,               \* AudioVisualizer.height()
  n_updates,            \* history: the number of update_bars calls
  last_target,          \* history: target_level of the last update_bars call
  last_silent,          \* history: the frame of the last update_bars call had no non-zero sample
  outdata,              \* history: what the last audio callback wrote to outdata
  computed,             \* what update_bars and detect_from_data compute from each
                        \* block of PipelineFrames and from the frame of the fade timer
  audio_data,           \* the frame detect_from_data is applied to on its own
  called,               \* detect_from_data has been applied to audio_data
  audio_error,          \* history: run has printed a sd.PortAudioError
  sample_rate,          \* AudioThread.sample_rate, the samplerate of sd.Stream
  blocksize,            \* AudioThread.buffer_size, the blocksize of sd.Stream
  level_writer,         \* history: the thread of the last write of smoothed_level
  painted,              \* history: the thread whose write the last paintEvent has read
  dialog,               \* the open SettingsDialog: None or its setting
  value_input,          \* the text the dialog has set in value_input (setText), as a
                        \* sequence of characters; what the user types comes with OK
  last_set,             \* history: the last setter call that returned since the last start
  idle_stops            \* history: the calls of stop_detection with no thread, each
                        \* with the stop_transition it found

vars ==
  << now, audio_thread, running, worker, wake, gui, stop_transition,
     start_enabled, stop_enabled, delay, last_detection_time, detection_queue,
     enqueued, analysed, emitted, pending, relayed, smoothed_level, height,
     n_updates, last_target, last_silent, outdata, computed, audio_data, called,
     audio_error, sample_rate, blocksize, level_writer, painted, dialog,
     value_input, last_set, idle_stops >>

detectorVars == << delay, last_detection_time, detection_queue, enqueued, analysed >>
signalVars   == << emitted, pending, relayed >>
meterVars    == << smoothed_level, height, n_updates, last_target, last_silent >>
threadVars   == << audio_thread, running, worker, wake, gui, stop_transition,
                   start_enabled, stop_enabled >>
pureVars     == << computed, audio_data, called >>
streamVars   == << audio_error, sample_rate, blocksize >>
accessVars   == << level_writer, painted >>
dialogVars   == << dialog, value_input, last_set, idle_stops >>

\* no setter call has returned
NoSetting == [setting |-> None, num |-> 0, den |-> 1]

\* MainWindow.__init__: no thread, start enabled, stop disabled
Construct ==
  /\ now = 0
  /\ audio_thread = None
  /\ running = FALSE
  /\ worker = "unstarted"
  /\ wake = 0
  /\ gui = "idle"
  /\ stop_transition = FALSE
  /\ start_enabled = TRUE
  /\ stop_enabled = FALSE
  /\ delay = DefaultDelay
  /\ last_detection_time = 0
  /\ detection_queue = << >>
  /\ enqueued = << >>
  /\ analysed = << >>
  /\ emitted = << >>
  /\ pending = << >>
  /\ relayed = << >>
  /\ smoothed_level = 0
  /\ n_updates = 0
  /\ last_target = 0
  /\ last_silent = FALSE
  /\ outdata = None
  /\ called = FALSE
  /\ audio_error = FALSE
  /\ sample_rate = None
  /\ blocksize = None
  /\ level_writer = "gui"
  /\ painted = None
  /\ dialog = None
  /\ value_input = << >>
  /\ last_set = NoSetting
  /\ idle_stops = << >>

Init ==
  /\ Construct
  /\ height \in Heights
  /\ audio_data = None
  /\ computed = Computed(height)

(***************************************************************************)
(* DTMFDetector: the queue and the tick.                                   *)
(***************************************************************************)
\* detect_dtmf: self.detection_queue.append(audio_data)
DetectDtmf(queue, frame) == Append(queue, frame)

\* faulty variant: current_time - self.last_detection_time > self.delay
AnalysisDue_Strict(current_time, queue) ==
  /\ current_time - last_detection_time > delay
  /\ queue # << >>

\* faulty variant: the rate limit is left out
AnalysisDue_NoRateLimit(current_time, queue) == queue # << >>

\* faulty variant: half the delay is enough
AnalysisDue_HalfDelay(current_time, queue) ==
  /\ 2 * (current_time - last_detection_time) >= delay
  /\ queue # << >>

\* process_queue, line 43: the guard of the analysis
AnalysisDue(current_time, queue) ==
  /\ current_time - last_detection_time >= delay
  /\ queue # << >>

\* faulty variant: self.detection_queue.pop()
QueuePop_Last(queue) ==
  [item |-> queue[Len(queue)], rest |-> SubSeq(queue, 1, Len(queue) - 1)]

\* process_queue, line 44: audio_data = self.detection_queue.pop(0)
QueuePop(queue) == [item |-> Head(queue), rest |-> Tail(queue)]

\* process_queue at time current_time. The queue holds the indata arrays of
\* the callbacks, which are views of the stream's buffer (line 164 takes no
\* copy): what the analysis reads from the frame is any block.
ProcessQueue(current_time) ==
  IF AnalysisDue(current_time, detection_queue)
  THEN \E d \in DOMAIN PipelineFrames :
         LET popped == QueuePop(detection_queue)
         IN  /\ detection_queue' = popped.rest
             /\ analysed' = Append(analysed, [frame |-> popped.item, time |-> current_time])
             /\ emitted' = emitted \o computed.blocks[d].emits
             /\ pending' = pending \o computed.blocks[d].emits
             /\ last_detection_time' = current_time
             /\ UNCHANGED << delay, enqueued, relayed >>
  ELSE UNCHANGED << detectorVars, signalVars >>

(***************************************************************************)
(* AudioVisualizer.update_bars as a step.                                  *)
(***************************************************************************)
UpdateBars(target_level, silent) ==
  /\ smoothed_level' = Smooth(target_level, smoothed_level)
  /\ last_target' = target_level
  /\ last_silent' = silent
  /\ n_updates' = n_updates + 1
  /\ UNCHANGED height

(***************************************************************************)
(* AudioThread.                                                            *)
(***************************************************************************)
\* AudioThread.main_window: start_detection passes no main_window (line 439)
main_window == None

StreamOpen == worker \in {"check", "sleeping"}

\* the process has not been ended by an exception that left a slot
ProcessAlive == gui # "aborted"

\* run, line 139 and the entry of the with block: the stream opens, or
\* sd.Stream raises sd.PortAudioError (a device or a parameter it does not
\* take), which lines 149-150 print before run ends
WorkerRun ==
  /\ ProcessAlive
  /\ worker = "starting"
  /\ running' = TRUE
  /\ \/ worker' = "check" /\ audio_error' = FALSE
     \/ worker' = "finished" /\ audio_error' = TRUE
  /\ UNCHANGED << now, audio_thread, wake, gui, stop_transition, start_enabled,
                  stop_enabled, detectorVars, signalVars, meterVars, outdata, pureVars,
                  sample_rate, blocksize, accessVars, dialogVars >>

\* run, line 146: while self.running, then sd.sleep(100) or the end of run
WorkerCheck ==
  /\ ProcessAlive
  /\ worker = "check"
  /\ IF running
     THEN worker' = "sleeping" /\ wake' = now + SleepTime
     ELSE worker' = "finished" /\ wake' = wake
  /\ UNCHANGED << now, audio_thread, running, gui, stop_transition, start_enabled,
                  stop_enabled, detectorVars, signalVars, meterVars, outdata, pureVars,
                  streamVars, accessVars, dialogVars >>

\* run, line 148: self.detector.process_queue() once the sleep is over
WorkerTick ==
  /\ ProcessAlive
  /\ worker = "sleeping"
  /\ now >= wake
  /\ ProcessQueue(now)
  /\ worker' = "check"
  /\ UNCHANGED << now, audio_thread, running, wake, gui, stop_transition,
                  start_enabled, stop_enabled, meterVars, outdata, pureVars,
                  streamVars, accessVars, dialogVars >>

\* audio_callback with block i of PipelineFrames as indata
AudioCallback(i) ==
  /\ ProcessAlive
  /\ StreamOpen
  /\ n_updates < MaxUpdates
  /\ IF main_window # None /\ stop_transition
     THEN /\ UpdateBars(computed.fade.target_level, computed.fade.silent)
          /\ outdata' = "zeros"
          /\ UNCHANGED << detection_queue, enqueued >>
     ELSE /\ outdata' = "indata"
          /\ UpdateBars(computed.blocks[i].target_level, computed.blocks[i].silent)
          /\ detection_queue' = DetectDtmf(detection_queue, Len(enqueued) + 1)
          /\ enqueued' = Append(enqueued, Len(enqueued) + 1)
  /\ level_writer' = "audio"
  /\ UNCHANGED << now, threadVars, delay, last_detection_time, analysed,
                  signalVars, pureVars, streamVars, painted, dialogVars >>

\* handle_dtmf_detected: self.dtmf_detected.emit(dtmf_char), run by the event
\* loop of the thread the AudioThread object lives in (the GUI thread)
HandleDtmfDetected ==
  /\ gui = "idle"
  /\ pending # << >>
  /\ relayed' = Append(relayed, Head(pending))
  /\ pending' = Tail(pending)
  /\ UNCHANGED << now, threadVars, detectorVars, emitted, meterVars, outdata, pureVars,
                  streamVars, accessVars, dialogVars >>

(***************************************************************************)
(* MainWindow.                                                             *)
(***************************************************************************)
\* DTMFDetector.__init__, lines 34-36: last_detection_time = time.time()
DetectorInit ==
  /\ delay' = DefaultDelay
  /\ last_detection_time' = now
  /\ detection_queue' = << >>
  /\ enqueued' = << >>
  /\ analysed' = << >>

\* start_detection (the start button)
StartDetection ==
  /\ gui = "idle"
  /\ dialog = None
  /\ start_enabled
  /\ audio_thread' = "AudioThread"
  /\ DetectorInit
  /\ running' = FALSE
  /\ worker' = "starting"
  /\ start_enabled' = FALSE
  /\ stop_enabled' = TRUE
  /\ stop_transition' = FALSE
  /\ sample_rate' = DefaultSampleRate
  /\ blocksize' = buffer_size
  /\ audio_error' = FALSE
  /\ last_set' = NoSetting
  /\ UNCHANGED << now, wake, gui, signalVars, meterVars, outdata, pureVars,
                  accessVars, dialog, value_input, idle_stops >>

\* stop_detection (the stop button) up to self.wait() of AudioThread.stop
StopDetection ==
  /\ gui = "idle"
  /\ dialog = None
  /\ stop_enabled
  /\ IF audio_thread # None
     THEN /\ stop_transition' = TRUE
          /\ running' = FALSE
          /\ gui' = "waiting"
          /\ UNCHANGED << start_enabled, stop_enabled >>
     ELSE /\ start_enabled' = TRUE
          /\ stop_enabled' = FALSE
          /\ UNCHANGED << stop_transition, running, gui >>
  /\ UNCHANGED << now, audio_thread, worker, wake, detectorVars, signalVars,
                  meterVars, outdata, pureVars, streamVars, accessVars, dialogVars >>

\* faulty variant: stop does not wait for the thread to end
StopReturn_NoWait ==
  /\ gui = "waiting"
  /\ audio_thread' = None
  /\ start_enabled' = TRUE
  /\ stop_enabled' = FALSE
  /\ gui' = "idle"
  /\ UNCHANGED << now, running, worker, wake, stop_transition, detectorVars,
                  signalVars, meterVars, outdata, pureVars, streamVars, accessVars,
                  dialogVars >>

\* self.wait() returns when run has ended; then lines 452-454
StopReturn ==
  /\ gui = "waiting"
  /\ worker = "finished"
  /\ audio_thread' = None
  /\ start_enabled' = TRUE
  /\ stop_enabled' = FALSE
  /\ gui' = "idle"
  /\ UNCHANGED << now, running, worker, wake, stop_transition, detectorVars,
                  signalVars, meterVars, outdata, pureVars, streamVars, accessVars,
                  dialogVars >>

\* update_visualizer_transition (the 75 ms timer of the GUI thread)
UpdateVisualizerTransition ==
  /\ gui = "idle"
  /\ n_updates < MaxUpdates
  /\ IF stop_transition
     THEN /\ UpdateBars(computed.fade.target_level, computed.fade.silent)
          /\ level_writer' = "gui"
     ELSE UNCHANGED << meterVars, level_writer >>
  /\ UNCHANGED << now, threadVars, detectorVars, signalVars, outdata, pureVars,
                  streamVars, painted, dialogVars >>

\* paintEvent, in the GUI thread: int(self.smoothed_level) is drawn
PaintEvent ==
  /\ gui = "idle"
  /\ painted # level_writer
  /\ painted' = level_writer
  /\ UNCHANGED << now, threadVars, detectorVars, signalVars, meterVars, outdata,
                  pureVars, streamVars, level_writer, dialogVars >>

\* time passes
Advance ==
  /\ ProcessAlive
  /\ now < MaxTime
  /\ now' = now + 1
  /\ UNCHANGED << threadVars, detectorVars, signalVars, meterVars, outdata, pureVars,
                  streamVars, accessVars, dialogVars >>

Next ==
  \/ StartDetection
  \/ StopDetection
  \/ StopReturn
  \/ UpdateVisualizerTransition
  \/ HandleDtmfDetected
  \/ WorkerRun
  \/ WorkerCheck
  \/ WorkerTick
  \/ \E i \in DOMAIN PipelineFrames : AudioCallback(i)
  \/ Advance

Spec == Init /\ [][Next]_vars

(***************************************************************************)
(* detect_from_data and its relay on their own: one frame of TestFrames.   *)
(***************************************************************************)
DetectInit ==
  /\ Construct
  /\ height = MinimumHeight
  /\ audio_data \in TestFrames
  /\ computed = None

\* self.detect_from_data(audio_data): the signals go to dtmf_detected
DetectCall ==
  /\ ~ called
  /\ called' = TRUE
  /\ emitted' = emitted \o DetectFromData(audio_data)
  /\ pending' = pending \o DetectFromData(audio_data)
  /\ UNCHANGED << now, threadVars, detectorVars, relayed, meterVars, outdata, computed,
                  audio_data, streamVars, accessVars, dialogVars >>

DetectNext ==
  \/ DetectCall
  \/ HandleDtmfDetected

SpecDetect == DetectInit /\ [][DetectNext]_vars


(***************************************************************************)
(* SettingsDialog: the text of value_input and float().                    *)
(***************************************************************************)
Digits == {"0", "1", "2", "3", "4", "5", "6", "7", "8", "9"}

DigitValue(c) ==
  CASE c = "0" -> 0 [] c = "1" -> 1 [] c = "2" -> 2 [] c = "3" -> 3 [] c = "4" -> 4
    [] c = "5" -> 5 [] c = "6" -> 6 [] c = "7" -> 7 [] c = "8" -> 8 [] c = "9" -> 9

AllDigits(s) == \A i \in DOMAIN s : s[i] \in Digits

RECURSIVE DigitsValue(_)
DigitsValue(s) ==
  IF s = << >> THEN 0
  ELSE 10 * DigitsValue(SubSeq(s, 1, Len(s) - 1)) + DigitValue(s[Len(s)])

\* str.strip(), which float() applies to its argument
RECURSIVE Strip(_)
Strip(s) ==
  IF s # << >> /\ s[1] = " " THEN Strip(Tail(s))
  ELSE IF s # << >> /\ s[Len(s)] = " " THEN Strip(SubSeq(s, 1, Len(s) - 1))
  ELSE s

ValueError == [ok |-> FALSE, num |-> 0, den |-> 1]

\* digits with at most one point and a digit on one side of it at least
ParseUnsigned(s) ==
  LET points == { i \in DOMAIN s : s[i] = "." }
  IN  IF points = {}
      THEN IF s # << >> /\ AllDigits(s)
           THEN [ok |-> TRUE, num |-> DigitsValue(s), den |-> 1]
           ELSE ValueError
      ELSE IF Cardinality(points) = 1
      THEN LET i        == CHOOSE j \in points : TRUE
               whole    == SubSeq(s, 1, i - 1)
               fraction == SubSeq(s, i + 1, Len(s))
           IN  IF AllDigits(whole) /\ AllDigits(fraction) /\ whole \o fraction # << >>
               THEN [ok |-> TRUE, num |-> DigitsValue(whole \o fraction),
                     den |-> Pow(10, Len(fraction))]
               ELSE ValueError
      ELSE ValueError

\* faulty variant: a text that is no number is taken as 0
ParseFloat_Lenient(text) == [ok |-> TRUE, num |-> 0, den |-> 1]

\* float(self.value_input.text()): the value num / den, or ValueError. The
\* texts of the model hold no exponent, no underscore, no inf and no nan.
ParseFloat(text) ==
  LET s == Strip(text)
  IN  IF s # << >> /\ s[1] \in {"+", "-"}
      THEN LET v == ParseUnsigned(Tail(s))
           IN  IF s[1] = "-" THEN [v EXCEPT !.num = 0 - v.num] ELSE v
      ELSE ParseUnsigned(s)

\* self.value_input.setText("Invalid input")
InvalidInputText == << "I", "n", "v", "a", "l", "i", "d", " ", "i", "n", "p", "u", "t" >>

\* the settings of the three dialogs
Settings == {"sample_rate", "timing", "buffer_size"}

\* str(current_value) of the values the dialogs are opened with: 44100, 0.2, 2048
StrCurrent(setting) ==
  CASE setting = "sample_rate" -> << "4", "4", "1", "0", "0" >>
    [] setting = "timing"      -> << "0", ".", "2" >>
    [] setting = "buffer_size" -> << "2", "0", "4", "8" >>

\* what the user types before OK
NumberTexts == { << "0", ".", "1" >>, << " ", "4", "8", "0", "0", "0" >> }
MalformedTexts == { << >>, << "1", ",", "5" >>, InvalidInputText }
Texts == NumberTexts \cup MalformedTexts

\* show_sample_rate_dialog, show_timing_dialog, show_buffer_size_dialog:
\* dialog.exec_() opens the modal dialog
ShowDialog(setting) ==
  /\ gui = "idle"
  /\ dialog = None
  /\ dialog' = setting
  /\ value_input' = StrCurrent(setting)
  /\ UNCHANGED << now, threadVars, detectorVars, signalVars, meterVars, outdata,
                  pureVars, streamVars, accessVars, last_set, idle_stops >>

\* SettingsDialog.accept with text in value_input (the OK button).
\* set_sample_rate, set_timing and set_buffer_size do nothing without a
\* thread; with one they call set_sample_rate, set_delay or set_buffer_size
\* of AudioThread, which it does not have: the AttributeError is not caught
\* by accept, super().accept() is not reached, and the exception leaves the
\* slot, where PyQt5 prints it and goes on, or ends the process and its
\* windows with it.
DialogAccept(text) ==
  /\ gui = "idle"
  /\ dialog # None
  /\ LET value == ParseFloat(text)
     IN  IF ~ value.ok
         THEN /\ value_input' = InvalidInputText
              /\ UNCHANGED << dialog, last_set, gui >>
         ELSE IF audio_thread = None
         THEN /\ last_set' = [setting |-> dialog, num |-> value.num, den |-> value.den]
              /\ dialog' = None
              /\ value_input' = << >>
              /\ gui' = gui
         ELSE /\ \/ gui' = "idle" /\ UNCHANGED << dialog, value_input >>
                 \/ gui' = "aborted" /\ dialog' = None /\ value_input' = << >>
              /\ UNCHANGED last_set
  /\ UNCHANGED << now, audio_thread, running, worker, wake, stop_transition,
                  start_enabled, stop_enabled, detectorVars, signalVars, meterVars,
                  outdata, pureVars, streamVars, accessVars, idle_stops >>

\* the Cancel button
DialogReject ==
  /\ gui = "idle"
  /\ dialog # None
  /\ dialog' = None
  /\ value_input' = << >>
  /\ UNCHANGED << now, threadVars, detectorVars, signalVars, meterVars, outdata,
                  pureVars, streamVars, accessVars, last_set, idle_stops >>

(***************************************************************************)
(* stop_detection called with no thread (the stop button is disabled then).*)
(***************************************************************************)
\* faulty variant: the buttons are left as they are
StopDetectionCall_NoButtons ==
  /\ gui = "idle"
  /\ audio_thread = None
  /\ Len(idle_stops) < MaxIdleStops
  /\ idle_stops' = Append(idle_stops, stop_transition)
  /\ start_enabled' = FALSE
  /\ stop_enabled' = TRUE
  /\ UNCHANGED << now, audio_thread, running, worker, wake, gui, stop_transition,
                  detectorVars, signalVars, meterVars, outdata, pureVars, streamVars,
                  accessVars, dialog, value_input, last_set >>

\* lines 449-454 with self.audio_thread None: the if is skipped
StopDetectionCall ==
  /\ gui = "idle"
  /\ audio_thread = None
  /\ Len(idle_stops) < MaxIdleStops
  /\ idle_stops' = Append(idle_stops, stop_transition)
  /\ start_enabled' = TRUE
  /\ stop_enabled' = FALSE
  /\ UNCHANGED << now, audio_thread, running, worker, wake, gui, stop_transition,
                  detectorVars, signalVars, meterVars, outdata, pureVars, streamVars,
                  accessVars, dialog, value_input, last_set >>

(***************************************************************************)
(* The window on a stream that carries the tone "5": with the settings     *)
(* dialogs (SpecSettings), and with the level meter and stop_detection     *)
(* called with no thread (SpecWindow).                                     *)
(***************************************************************************)
\* the blocks of the stream: the tone at full amplitude
ControlBlocks ==
  { i \in DOMAIN PipelineFrames :
      computed.blocks[i].emits # << >> /\ i < Len(PipelineFrames) }

ControlInit ==
  /\ Construct
  /\ height = MinimumHeight
  /\ audio_data = None
  /\ computed = Computed(height)

\* the start and stop buttons, the relay, the worker, the stream and the clock
ControlNext ==
  \/ StartDetection
  \/ StopDetection
  \/ StopReturn
  \/ HandleDtmfDetected
  \/ WorkerRun
  \/ WorkerCheck
  \/ WorkerTick
  \/ \E i \in ControlBlocks : AudioCallback(i)
  \/ Advance

\* with the settings dialogs (and without the level meter's timer and repaint)
SettingsNext ==
  \/ ControlNext
  \/ \E setting \in Settings : ShowDialog(setting)
  \/ \E text \in Texts : DialogAccept(text)
  \/ DialogReject

SpecSettings == ControlInit /\ [][SettingsNext]_vars

\* with the level meter's timer and repaint, and stop_detection called with
\* no thread
WindowNext ==
  \/ ControlNext
  \/ UpdateVisualizerTransition
  \/ PaintEvent
  \/ StopDetectionCall

SpecWindow == ControlInit /\ [][WindowNext]_vars
(***************************************************************************)
(* Properties.                                                             *)
(***************************************************************************)
\* a step of process_queue: the worker leaves its sleep
TickStep == worker = "sleeping" /\ worker' = "check"

\* the frames analysed so far, in the order of their analysis
AnalysedFrames == [i \in 1..Len(analysed) |-> analysed[i].frame]

\* the qualifying candidate frequencies of a frame, as positions
Qualifying(frame) == IF frame.len = 0 THEN {} ELSE DetectedFreqs(frame)

\* the pairs of the frequencies of q with no frequency of q between
AdjacentPairs(q) ==
  { pair \in q \X q :
      /\ pair[1] < pair[2]
      /\ ~ \E c \in q : pair[1] < c /\ c < pair[2] }

\* the least distance of a table entry to the pairs of adj
LeastDistance(adj, entry, n) ==
  LET ds == { Distance(pair, entry, n) : pair \in adj }
  IN  CHOOSE d \in ds : \A e \in ds : d <= e

\* the places in dtmf_freqs of the entries nearest to the pairs of adj
Nearest(adj, n) ==
  LET least == { << i, LeastDistance(adj, dtmf_freqs[i], n) >> : i \in DOMAIN dtmf_freqs }
  IN  { a[1] : a \in { b \in least : \A c \in least : b[2] <= c[2] } }

\* C1: the frames analysed so far followed by the contents of the detection
\* queue are the frames enqueued so far, in the order of their arrival
C1_QueueConservation ==
  /\ AnalysedFrames \o detection_queue = enqueued
  /\ enqueued = [i \in 1..Len(enqueued) |-> i]

C1_Witness ==
  /\ Len(analysed) >= 2
  /\ detection_queue # << >>

\* C2: a tick analyses a frame exactly when the delay has passed since the
\* last analysis and the queue is not empty; it then removes the oldest frame,
\* analyses it and sets last_detection_time to the time of the tick; any other
\* tick changes nothing of the detector and emits nothing
C2_TickEffect ==
  [][ TickStep =>
        IF now - last_detection_time >= delay /\ detection_queue # << >>
        THEN /\ detection_queue' = Tail(detection_queue)
             /\ analysed' = Append(analysed, [frame |-> Head(detection_queue), time |-> now])
             /\ last_detection_time' = now
             /\ delay' = delay
             /\ Len(emitted') <= Len(emitted) + 1
        ELSE UNCHANGED << detection_queue, last_detection_time, delay, analysed,
                          emitted, pending, relayed >> ]_vars

C2_Witness ==
  /\ worker = "check"
  /\ analysed # << >>
  /\ analysed[Len(analysed)].time = now
  /\ last_detection_time = now
  /\ detection_queue # << >>

\* C3 as claimed: on a fresh detector with two frames enqueued, a tick
\* analyses exactly the first frame, whenever it is called
C3_Original ==
  [][ (TickStep /\ delay > 0 /\ analysed = << >> /\ Len(detection_queue) = 2) =>
        analysed' = << [frame |-> detection_queue[1], time |-> now] >> ]_vars

\* C3 amended: with two frames queued, a tick called once the delay has passed
\* since last_detection_time analyses exactly the first of them; a further
\* tick at least the delay after an analysis analyses the next frame; a tick
\* called before the delay has passed since last_detection_time (which a
\* fresh detector sets to its construction time) analyses no frame
C3_RateLimitedTicks ==
  [][ (TickStep /\ delay > 0) =>
        /\ (Len(detection_queue) >= 2 /\ now - last_detection_time >= delay) =>
             /\ analysed' = Append(analysed, [frame |-> detection_queue[1], time |-> now])
             /\ Head(detection_queue') = detection_queue[2]
        /\ (detection_queue # << >> /\ analysed # << >>
              /\ now >= analysed[Len(analysed)].time + delay) =>
             AnalysedFrames' = Append(AnalysedFrames, Head(detection_queue))
        /\ (now - last_detection_time < delay) =>
             UNCHANGED << analysed, detection_queue >> ]_vars

C3_Witness ==
  /\ Len(enqueued) = 2
  /\ AnalysedFrames = << 1, 2 >>
  /\ analysed[2].time >= analysed[1].time + delay

\* C4: for each of the 16 table entries, the frame of its two summed
\* sinusoids (44100 Hz, 2048 samples) makes detect_from_data emit its symbol
\* and nothing else
C4_SineFrameYieldsItsSymbol ==
  \A i \in DOMAIN dtmf_freqs :
    (called /\ audio_data = SineFrame(i)) => emitted = << dtmf_freqs[i].key >>

C4_Witness ==
  /\ called
  /\ audio_data = SineFrame(Len(dtmf_freqs))
  /\ relayed # << >>

C6_NearestOverAdjacentPairs ==
  (called /\ emitted # << >>) =>
    LET q     == Qualifying(audio_data)
        adj   == AdjacentPairs(q)
        pairs == PossiblePairs(SortedSeq(q))
    IN  /\ Len(pairs) = Cardinality(q) - 1
        /\ { pairs[i] : i \in DOMAIN pairs } = adj
        /\ \E i \in Nearest(adj, audio_data.len) : emitted[1] = dtmf_freqs[i].key

C6_Witness ==
  /\ called
  /\ emitted # << >>
  /\ LET q   == Qualifying(audio_data)
         adj == AdjacentPairs(q)
     IN  /\ Cardinality(q) = 3
         /\ \A i \in DOMAIN dtmf_freqs :
              LeastDistance(adj, dtmf_freqs[i], audio_data.len) > 100 * audio_data.len

\* C7: of the entries at the same least distance, the first in the order of
\* the table is emitted
C7_FirstOfTheNearest ==
  (called /\ emitted # << >>) =>
    LET nearest == Nearest(AdjacentPairs(Qualifying(audio_data)), audio_data.len)
        first   == CHOOSE i \in nearest : \A j \in nearest : i <= j
    IN  emitted[1] = dtmf_freqs[first].key

C7_Witness ==
  /\ called
  /\ emitted # << >>
  /\ Cardinality(Nearest(AdjacentPairs(Qualifying(audio_data)), audio_data.len)) >= 2

\* C8: a frame of zeros, of any length but 0, makes detect_from_data emit nothing
C8_SilenceYieldsNothing ==
  (called /\ audio_data.len > 0 /\ IsSilent(audio_data)) => emitted = << >>

C8_Witness ==
  /\ called
  /\ audio_data = ZeroFrame(buffer_size)

\* C9 as claimed: an update with a frame of zeros never raises the smoothed
\* level and never takes it below 0
C9_ZeroFrameNeverRaises ==
  [][ (n_updates' = n_updates + 1 /\ last_silent') =>
        /\ smoothed_level' <= smoothed_level
        /\ smoothed_level' >= 0 ]_vars

\* C10 as claimed: the target level of an update with an empty frame or with
\* a frame of silence is 0
C10_SilentTargetIsZero ==
  (n_updates > 0 /\ last_silent) => last_target = 0

\* the smoothed level is kept exactly: no division of Smooth leaves a remainder
LevelExact ==
  [][ n_updates' = n_updates + 1 =>
        SmoothingDen * smoothed_level' = last_target' + (SmoothingDen - 1) * smoothed_level ]_vars


(***************************************************************************)
(* Start, stop and the stream.                                             *)
(***************************************************************************)
\* a step of the audio callback
CallbackStep == \E i \in DOMAIN PipelineFrames : AudioCallback(i)

\* C11 as claimed: stop returns because the worker loop observes
\* running = False: while stop_detection waits for a thread that has not
\* ended, running is False
C11_StopObserved ==
  (gui = "waiting" /\ worker # "finished") => ~ running

\* once stop waits with running = True it waits for ever: only the GUI
\* thread, which is waiting, sets running to False
StopHangs ==
  [][ (gui = "waiting" /\ running /\ worker # "finished")
        => (gui' = "waiting" /\ running' /\ worker' # "finished") ]_vars

\* the callback and the tick act on an open stream only, and stop returns
\* only once the thread has ended: none follows the return of stop
NoneAfterStopReturns ==
  [][ (CallbackStep \/ TickStep) => (audio_thread # None /\ StreamOpen) ]_vars

\* C12: while a thread is live (started and not ended) the window holds it
\* and the start button is disabled, so no start creates a second one
C12_OneStream ==
  (worker \in {"starting", "check", "sleeping"}) =>
    (audio_thread # None /\ ~ start_enabled)

\* a second stream runs, after the first one ran and was stopped
C12_Witness ==
  /\ worker = "check"
  /\ enqueued = << >>
  /\ outdata # None

\* C15 as claimed: once the stream has failed to open, no stream is
\* considered active and start is available again
C15_OpenFailureSurfaced ==
  audio_error => (audio_thread = None /\ start_enabled /\ ~ stop_enabled)

\* C17 as claimed: a callback writes zeros when stop_transition is set and
\* the input block when it is clear
C17_MuteOnNextBlock ==
  [][ CallbackStep =>
        outdata' = (IF stop_transition THEN "zeros" ELSE "indata") ]_vars

\* while stop_transition is clear, every callback copies the input block
PassthroughWhenClear ==
  [][ (CallbackStep /\ ~ stop_transition) => outdata' = "indata" ]_vars

(***************************************************************************)
(* Settings.                                                               *)
(***************************************************************************)
\* C13 as claimed: the value a setter took while no stream was running is
\* the value of the next started stream
C13_PendingSettingUsed ==
  [][ (StartDetection /\ last_set # NoSetting) =>
        CASE last_set.setting = "timing" ->
               delay' * last_set.den = UnitsPerSecond * last_set.num
          [] last_set.setting = "sample_rate" ->
               sample_rate' * last_set.den = last_set.num
          [] last_set.setting = "buffer_size" ->
               blocksize' * last_set.den = last_set.num ]_vars

\* C14 as claimed: the timing dialog accepted with a number while a stream
\* runs sets the delay of its detector and leaves the queue and
\* last_detection_time as they are
C14_SetDelayOnRunning ==
  [][ \A text \in NumberTexts :
        (DialogAccept(text) /\ dialog = "timing" /\ audio_thread # None) =>
          /\ delay' * ParseFloat(text).den = UnitsPerSecond * ParseFloat(text).num
          /\ UNCHANGED << detection_queue, last_detection_time >> ]_vars

\* C16: OK on a text that is no number calls no setter, leaves the dialog
\* open with "Invalid input" in it, changes no setting and ends nothing
C16_MalformedRejected ==
  [][ \A text \in MalformedTexts :
        DialogAccept(text) =>
          /\ dialog' = dialog
          /\ value_input' = InvalidInputText
          /\ last_set' = last_set
          /\ gui' = gui
          /\ UNCHANGED << delay, sample_rate, blocksize >> ]_vars

C16_Witness ==
  /\ dialog = "timing"
  /\ value_input = InvalidInputText
  /\ audio_thread # None

(***************************************************************************)
(* The level meter between threads; stop with no stream.                   *)
(***************************************************************************)
\* C18 as claimed: the GUI thread never reads a smoothed_level that the audio
\* callback's thread has written
C18_LevelByHandOff == painted # "audio"

\* C19: stop_detection called with no thread leaves the window stopped (no
\* thread, start enabled, stop disabled) and changes nothing else
C19_StopWhenStopped ==
  [][ idle_stops' # idle_stops =>
        /\ audio_thread' = None
        /\ start_enabled'
        /\ ~ stop_enabled'
        /\ gui' = "idle"
        /\ UNCHANGED << now, threadVars, detectorVars, signalVars, meterVars,
                        outdata, streamVars, accessVars >> ]_vars

\* stop_detection was called before any start, and again after a stop
C19_Witness == idle_stops = << FALSE, TRUE >>

(***************************************************************************)
(* The candidate filter of detect_from_data.                               *)
(***************************************************************************)
\* the peaks of magnitude above 13 and of frequency in [600, 1700] Hz
KeptPeaks(frame) ==
  { p \in FindPeaks(frame.mag) :
      /\ frame.mag[p] > MagnitudeThreshold
      /\ ValidRangeLow * frame.len <= (p - 1) * SampleRateHz
      /\ (p - 1) * SampleRateHz <= ValidRangeHigh * frame.len }

\* C20: the qualifying frequencies are the peaks of magnitude above 13 and
\* of frequency in [600, 1700] Hz, both ends included; the candidate pairs
\* are made of them only, and a symbol is emitted only if there are two
C20_CandidateFilter ==
  (called /\ audio_data.len > 0) =>
    LET kept == KeptPeaks(audio_data)
        q    == DetectedFreqs(audio_data)
        prs  == PossiblePairs(SortedSeq(q))
    IN  /\ q = kept
        /\ \A i \in DOMAIN prs : prs[i][1] \in kept /\ prs[i][2] \in kept
        /\ emitted # << >> => Cardinality(kept) >= 2

\* peaks of magnitude 13 at 400 and 1900 Hz are dropped, peaks at 600 and
\* 1700 Hz are kept and make the pair
C20_Witness ==
  /\ called
  /\ audio_data \in BoundaryFrames
  /\ audio_data.mag[5] = MagnitudeThreshold
  /\ audio_data.mag[20] = MagnitudeThreshold
  /\ DetectedFreqs(audio_data) = {7, 18}
  /\ emitted # << >>

(***************************************************************************)
(* Implicit invariants.                                                    *)
(***************************************************************************)
\* C21: the times of two consecutive analyses of a detector are at least
\* delay apart, and a tick analyses at most one frame and takes at most one
\* frame off the queue
C21_RateLimit ==
  /\ [](\A i \in 1..(Len(analysed) - 1) :
          analysed[i + 1].time - analysed[i].time >= delay)
  /\ [][ TickStep =>
           /\ Len(analysed') <= Len(analysed) + 1
           /\ Len(detection_queue') >= Len(detection_queue) - 1
           /\ Len(detection_queue) - Len(detection_queue') =
                Len(analysed') - Len(analysed) ]_vars

\* two analyses have been made and a frame still waits
C21_Witness ==
  /\ Len(analysed) >= 2
  /\ analysed[2].time - analysed[1].time = delay
  /\ Len(detection_queue) >= 1

\* C22: the smoothed level stays between 0 and the height of the visualizer,
\* as does every target
C22_BoundedLevel ==
  /\ 0 <= smoothed_level
  /\ smoothed_level <= height * LevelScale
  /\ 0 <= last_target
  /\ last_target <= height * LevelScale

\* updates from the callback and from the fade timer, one of them with the
\* target clamped at the height
C22_Witness ==
  /\ n_updates = MaxUpdates
  /\ level_writer = "gui"
  /\ last_silent
  /\ 4 * smoothed_level > height * LevelScale
=============================================================================
